---- MODULE Spec2Model ----
(***************************************************************************)
(* openfga-sync: the sync loop (main.go), the change fetcher's retry loop  *)
(* (fetcher/openfga.go) and the three storage adapters (storage/).         *)
(*                                                                         *)
(* Spec      the running service: runSyncLoop / syncChanges, one action    *)
(*           per blocking call of a tick, with shutdown and restart.       *)
(* SpecSink  the StorageAdapter interface called directly, with arbitrary  *)
(*           batches of events.                                            *)
(*                                                                         *)
(* Continuation tokens are opaque to the service.  The model's source      *)
(* keeps its change log in `stream` and hands out the token p (p > 0) for  *)
(* the position after the p-th change; 0 is the empty string.              *)
(***************************************************************************)
EXTENDS Integers, Sequences, FiniteSets, TLC

VARIABLES
    backendType,        \* cfg.Backend.Type
    mode,               \* cfg.Backend.Mode, also the adapter's mode
    batchSize,          \* OpenFGAAdapter.batchSize
    maxChanges,         \* cfg.Service.MaxChanges, the fetcher's options.MaxChanges
    sinkMode,           \* the mode the storage adapter was constructed with
    stream,             \* the source store's change log
    pc,                 \* where runSyncLoop / syncChanges stands
    ctxDone,            \* the shutdown context is cancelled
    continuationToken,  \* runSyncLoop's in-memory token
    syncToken,          \* sync_state.continuation_token / OpenFGAAdapter.lastToken
    result,             \* the FetchResult of the running tick
    attempt,            \* retryWithBackoff's attempt
    sinkOffset,         \* OpenFGAAdapter.applyChanges' i
    sinkAttempt,        \* OpenFGAAdapter.applyChangesWithRetry's attempt
    changelog,          \* rows of fga_changelog
    tuples,             \* rows of fga_tuples / tuples of the target store
    committed,          \* history: timestamps of the events that took effect at the
                        \* sink, in the order of their first effect
    tick,               \* history: the running (or last) tick
    prevTick,           \* history: the tick before it
    ticks,              \* ticks started
    restarts,           \* process restarts
    call,               \* history: the last direct adapter call (SpecSink)
    lastEv,             \* history: per key, the last recognized event applied (SpecSink)
    tickerC,            \* ticker.C holds a tick (a channel of capacity 1)
    sigChan,            \* signals buffered in sigChan (capacity 1)
    signals,            \* signals sent to the process so far
    handler,            \* the shutdown handler goroutine of main()
    shutdownTimer,      \* the handler's 30 s timer
    watcher,            \* the goroutine the handler starts for the second signal
    inFlight,           \* syncChanges calls entered and not yet returned
    closes,             \* Close calls on the storage adapter and on the fetcher
    exitCode,           \* the process's exit code, -1 while it runs
    response,           \* the ReadChanges response the fetcher parses (SpecFetch)
    warnings,           \* validation warnings logged by FetchChangesWithRetry
    input,              \* the string handed to an identity parser (SpecParse)
    output,             \* what the parser returned
    fetcher,            \* the OpenFGAFetcher: options, rateLimiter, stats (SpecRetry)
    timers,             \* the time.Tickers created as rate limiters
    retry               \* the running FetchChangesWithRetry call's locals

vars == <<backendType, mode, batchSize, maxChanges, sinkMode, stream, pc, ctxDone, continuationToken,
          syncToken, result, attempt, sinkOffset, sinkAttempt, changelog, tuples,
          committed, tick, prevTick, ticks, restarts, call, lastEv, tickerC, sigChan,
          signals, handler, shutdownTimer, watcher, inFlight, closes, exitCode,
          response, warnings, input, output, fetcher, timers, retry>>

configVars == <<backendType, mode, batchSize, maxChanges, sinkMode, stream>>
sinkCallVars == <<call, lastEv>>
mainVars == <<tickerC, sigChan, signals, handler, shutdownTimer, watcher, inFlight,
              closes, exitCode>>
parseVars == <<response, warnings, input, output>>
fetcherVars == <<fetcher, timers, retry>>

----
\* Bounds of the model.
MaxStream == 3
PageSize == 2
MaxBatchSize == 2
MaxRetries == 1
SinkMaxRetries == 1
MaxTicks == 2
MaxRestarts == 1
MaxBatch == 2
MaxLog == 3
MaxSignals == 2
MaxStrLen == 4
MaxPage == 3
MaxLimit == 2
MaxDuration == 2
MaxCalls == 1
MaxTimers == 2
MaxFetches == 3

----
\* Values

BackendTypes == {"postgres", "sqlite", "openfga"}
Transactional == {"postgres", "sqlite"}
StorageModeChangelog == "changelog"
StorageModeStateful == "stateful"
StorageModes == {StorageModeChangelog, StorageModeStateful}

K1 == [object_type |-> "document", object_id |-> "readme", relation |-> "viewer",
       user_type |-> "user", user_id |-> "alice"]
K2 == [object_type |-> "document", object_id |-> "readme", relation |-> "editor",
       user_type |-> "user", user_id |-> "bob"]
Keys == {K1, K2}

ChangeEvent(op, k, cond, ts) ==
    [operation |-> op, object_type |-> k.object_type, object_id |-> k.object_id,
     relation |-> k.relation, user_type |-> k.user_type, user_id |-> k.user_id,
     condition |-> cond, timestamp |-> ts]

KeyOf(ev) ==
    [object_type |-> ev.object_type, object_id |-> ev.object_id, relation |-> ev.relation,
     user_type |-> ev.user_type, user_id |-> ev.user_id]

Min(a, b) == IF a < b THEN a ELSE b

Range(s) == {s[i] : i \in 1..Len(s)}

\* strings.ToUpper on the operation, for strings of ASCII characters: every
\* letter is upper-cased, every other character is kept
AsciiLower == "abcdefghijklmnopqrstuvwxyz"
AsciiUpper == "ABCDEFGHIJKLMNOPQRSTUVWXYZ"

\* The upper-case letter of every lower-case letter
UpperOf ==
    [c \in {SubSeq(AsciiLower, i, i) : i \in 1..Len(AsciiLower)} |->
        LET i == CHOOSE j \in 1..Len(AsciiLower) : SubSeq(AsciiLower, j, j) = c
        IN  SubSeq(AsciiUpper, i, i)]

UpperChar(c) == IF c \in DOMAIN UpperOf THEN UpperOf[c] ELSE c

RECURSIVE ToUpper(_)
ToUpper(op) ==
    IF op = "" THEN ""
    ELSE UpperChar(SubSeq(op, 1, 1)) \o ToUpper(SubSeq(op, 2, Len(op)))

IsWriteOp(op) == ToUpper(op) \in {"TUPLE_TO_USERSET_WRITE", "WRITE"}
IsDeleteOp(op) == ToUpper(op) \in {"TUPLE_TO_USERSET_DELETE", "DELETE"}

\* `if change.Condition != "" { conditionText = change.Condition }`: NULL otherwise
ConditionText(cond) == IF cond /= "" THEN cond ELSE "NULL"

----
\* The relational adapters (PostgresAdapter, SQLiteAdapter)

\* json.Marshal(change) of a fetcher.ChangeEvent: a JSON object of the struct's
\* fields, the parser's raw_json among them
MarshalEvent(ev) == [json |-> "ChangeEvent", value |-> ev]

\* Timestamps count microseconds.  SQLite binds
\* change.Timestamp.Format("2006-01-02 15:04:05.000"), which keeps milliseconds;
\* PostgreSQL's timestamp column keeps microseconds.
MicrosPerMilli == 1000

StoredTimestamp(backend, ts) ==
    IF backend = "sqlite" THEN ts - (ts % MicrosPerMilli) ELSE ts

\* One row of fga_changelog, as WriteChanges binds it
ChangelogRow(ev) ==
    [change_type |-> ev.operation, key |-> KeyOf(ev),
     timestamp |-> StoredTimestamp(backendType, ev.timestamp),
     condition |-> ConditionText(ev.condition), raw_event |-> MarshalEvent(ev)]

\* The INSERT loop of WriteChanges: one row per event, in input order
InsertRows(log, events) ==
    log \o [i \in 1..Len(events) |-> ChangelogRow(events[i])]

TupleRow(ev) == [key |-> KeyOf(ev), condition |-> ConditionText(ev.condition)]

\* A faulty variant: ON CONFLICT DO NOTHING, an existing row keeps its condition
UpsertKeepExisting(rows, ev) ==
    IF \E r \in rows : r.key = KeyOf(ev) THEN rows ELSE rows \cup {TupleRow(ev)}

\* INSERT OR REPLACE / ON CONFLICT (primary key) DO UPDATE SET condition
Upsert(rows, ev) ==
    {r \in rows : r.key /= KeyOf(ev)} \cup {TupleRow(ev)}

\* DELETE FROM fga_tuples WHERE <primary key>; no row is not an error
DeleteTuple(rows, ev) == {r \in rows : r.key /= KeyOf(ev)}

\* The switch of ApplyChanges' loop body
ApplyChange(rows, ev) ==
    IF IsWriteOp(ev.operation) THEN Upsert(rows, ev)
    ELSE IF IsDeleteOp(ev.operation) THEN DeleteTuple(rows, ev)
    ELSE rows

RECURSIVE ApplyInOrder(_, _)
ApplyInOrder(rows, events) ==
    IF events = <<>> THEN rows
    ELSE ApplyInOrder(ApplyChange(rows, Head(events)), Tail(events))

WritesOf(events) == SelectSeq(events, LAMBDA e : IsWriteOp(e.operation))
DeletesOf(events) == SelectSeq(events, LAMBDA e : IsDeleteOp(e.operation))

\* A faulty variant: the batch is split into its writes and its deletes, writes applied first
ApplyWritesThenDeletes(rows, events) ==
    ApplyInOrder(ApplyInOrder(rows, WritesOf(events)), DeletesOf(events))

\* The loop of ApplyChanges over the batch, inside one transaction
ApplyRows(rows, events) == ApplyInOrder(rows, events)

\* The events of a batch that change the sink, in the order they take effect
Recognized(events) ==
    SelectSeq(events, LAMBDA e : IsWriteOp(e.operation) \/ IsDeleteOp(e.operation))

Timestamps(events) == [i \in 1..Len(events) |-> events[i].timestamp]

\* The history of first effects, extended by the events that take effect now
RECURSIVE Record(_, _)
Record(hist, stamps) ==
    IF stamps = <<>> THEN hist
    ELSE Record(IF Head(stamps) \in Range(hist) THEN hist ELSE Append(hist, Head(stamps)),
                Tail(stamps))

\* A faulty variant: the mode check is missing
WriteChangesAnyMode(m) == TRUE

\* `if s.mode != config.StorageModeChangelog { return error }`
WriteChangesModeOk(m) == m = StorageModeChangelog

\* A faulty variant: the mode check is missing
ApplyChangesAnyMode(m) == TRUE

\* `if s.mode != config.StorageModeStateful { return error }`
ApplyChangesModeOk(m) == m = StorageModeStateful

----
\* The OpenFGA adapter (replication into a target store)

\* processBatch: the batch's writes and deletes, each list in batch order
BatchRequest(batch) == [writes |-> WritesOf(batch), deletes |-> DeletesOf(batch)]

\* The Write request carries two lists; which list the target applies first is
\* not stated by the request, so it is a choice.
RequestOrders == {"writes_first", "deletes_first"}

RequestEffect(req, order) ==
    IF order = "writes_first" THEN req.writes \o req.deletes
    ELSE req.deletes \o req.writes

\* applyChanges: `batch := changes[i:end]`
BatchAt(changes, i, size) == SubSeq(changes, i + 1, Min(i + size, Len(changes)))

----
\* The source (OpenFGA ReadChanges)

\* The page after position tok: up to PageSize changes
PageChanges(tok) == SubSeq(stream, tok + 1, Min(tok + PageSize, Len(stream)))

\* The continuation token of that page: the position after its last change; at
\* the end of the log the source may also answer with no token.
PageTokens(tok) ==
    LET p == Min(tok + PageSize, Len(stream))
    IN  IF p = Len(stream) THEN {p, 0} ELSE {p}

----
\* The fetcher's retry loop and the decisions of syncChanges

\* A faulty variant: the loop runs one attempt too many
LastAttemptOffByOne(a) == a = MaxRetries + 1

\* retryWithBackoff: `if attempt == config.MaxRetries { return err }`
LastAttempt(a) == a = MaxRetries

\* A faulty variant: the error of the sink write is not checked
AfterSinkWriteIgnoringError(err, res) ==
    IF res.token /= 0 THEN "save" ELSE "done"

\* A faulty variant: the token is saved whether or not it is empty
AfterSinkWriteSavingEmpty(err, res) ==
    IF err THEN "fail" ELSE "save"

\* syncChanges after WriteChanges / ApplyChanges returned: return the error, or
\* save the token `if result.ContinuationToken != ""`, or finish the tick
AfterSinkWrite(err, res) ==
    IF err THEN "fail"
    ELSE IF res.token /= 0 THEN "save"
    ELSE "done"

\* A faulty variant: the in-memory token advances although the save failed
TokenAfterSaveAlwaysAdvancing(err, cur, next) == next

\* syncChanges: `*continuationToken = result.ContinuationToken` is reached only
\* when SaveContinuationToken returned no error
TokenAfterSave(err, cur, next) == IF err THEN cur ELSE next

----
\* State of the running service

NoResult == [changes |-> <<>>, token |-> 0, hasMore |-> FALSE]

\* The FetchResult of FetchChangesWithPaging: hasMore = nextToken != ""
FetchResult(changes, nextToken) ==
    [changes |-> changes, token |-> nextToken, hasMore |-> nextToken /= 0]

NoTick == [startSync |-> 0, fetchToken |-> 0, next |-> -1, fetched |-> 0,
           attempts |-> 0, written |-> FALSE, applied |-> FALSE, savedWith |-> -1,
           cancelled |-> FALSE, outcome |-> "none", err |-> "none"]

NoPrevTick == [fetchToken |-> 0, outcome |-> "none", exhausted |-> FALSE,
               written |-> FALSE]

NoCall == [op |-> "none", events |-> <<>>, err |-> FALSE, rowsBefore |-> {},
           logBefore |-> <<>>]

NoEvent == [kind |-> "none", condition |-> ""]

LoopOps == {"WRITE", "DELETE"}

\* The change logs of the source: the changes of one tuple, stamped 1, 2, ...;
\* the source accepts a write only of an absent tuple and a delete only of a
\* present one, so the operations alternate
OtherOp(op) == IF op = "WRITE" THEN "DELETE" ELSE "WRITE"

StreamsOfLen(n) ==
    {[i \in 1..n |-> ChangeEvent(IF i % 2 = 1 THEN first ELSE OtherOp(first), K1, "", i)] :
        first \in LoopOps}

Streams == StreamsOfLen(MaxStream - 1) \cup StreamsOfLen(MaxStream)

\* main() before a signal: the handler waits on sigChan, nothing is closed
InitMainVars ==
    /\ tickerC = FALSE
    /\ sigChan = 0
    /\ signals = 0
    /\ handler = "waiting"
    /\ shutdownTimer = "none"
    /\ watcher = "none"
    /\ inFlight = 0
    /\ closes = [sink |-> 0, fetcher |-> 0]
    /\ exitCode = -1

\* No response fetched, no parser called
InitParseVars ==
    /\ response = [changes |-> <<>>, token |-> 0]
    /\ warnings = 0
    /\ input = <<>>
    /\ output = [fn |-> "none", type |-> <<>>, id |-> <<>>]

\* A fetcher built with no rate limiter and no call running
NoStats == [total |-> 0, success |-> 0, failed |-> 0]

\* A RetryConfig before any call has copied one
NoConfig == [maxRetries |-> 0, initialDelay |-> 0, maxDelay |-> 0,
             backoffFactor |-> [num |-> 1, den |-> 1]]

NoRetry == [config |-> NoConfig, delay |-> 0, slept |-> <<>>, parked |-> FALSE,
            waitsOn |-> 0, err |-> "none", calls |-> 0, returned |-> 0]

\* main(): the fetchOptions built from the service configuration.  Outside
\* SpecRetry no delay is modelled.
fetchOptions ==
    [maxRetries |-> MaxRetries, initialDelay |-> 0, maxDelay |-> 0,
     backoffFactor |-> [num |-> 2, den |-> 1], rateLimitDelay |-> 0,
     enableValidation |-> TRUE]

InitFetcherVars ==
    /\ fetcher = [options |-> fetchOptions, rateLimiter |-> 0, stats |-> NoStats,
                  mutex |-> <<>>]
    /\ timers = <<>>
    /\ retry = NoRetry

Init ==
    /\ backendType \in BackendTypes
    /\ mode \in StorageModes
    /\ batchSize \in (IF backendType = "openfga" THEN 1..MaxBatchSize ELSE {MaxBatchSize})
    /\ maxChanges = 0
    /\ sinkMode = mode
    /\ stream \in Streams
    /\ pc = "start"
    /\ ctxDone = FALSE
    /\ continuationToken = 0
    /\ syncToken = 0
    /\ result = NoResult
    /\ attempt = 0
    /\ sinkOffset = 0
    /\ sinkAttempt = 0
    /\ changelog = <<>>
    /\ tuples = {}
    /\ committed = <<>>
    /\ tick = NoTick
    /\ prevTick = NoPrevTick
    /\ ticks = 0
    /\ restarts = 0
    /\ call = NoCall
    /\ lastEv = [k \in Keys |-> NoEvent]
    /\ InitMainVars
    /\ InitParseVars
    /\ InitFetcherVars

sinkVars == <<changelog, tuples, committed>>
locals == <<result, attempt, sinkOffset, sinkAttempt>>
loopVars == <<pc, ctxDone, continuationToken, syncToken, result, attempt, sinkOffset,
              sinkAttempt, committed, tick, prevTick, ticks, restarts>>

\* The tick returns: syncChanges' error (or nil) goes back to runSyncLoop, which
\* logs it and selects again; the locals of the call are gone
EndTick(t, outcome) ==
    /\ tick' = [t EXCEPT !.outcome = outcome, !.cancelled = ctxDone]
    /\ pc' = "select"
    /\ result' = NoResult
    /\ attempt' = 0
    /\ sinkOffset' = 0
    /\ sinkAttempt' = 0

\* Leave the sink write for what AfterSinkWrite decides; "save" is the call
\* SaveContinuationToken(ctx, result.ContinuationToken)
Continue(t, next) ==
    IF next = "save"
    THEN tick' = [t EXCEPT !.savedWith = result.token]
         /\ pc' = "save" /\ sinkOffset' = 0 /\ sinkAttempt' = 0
         /\ UNCHANGED <<result, attempt>>
    ELSE EndTick(t, IF next = "fail" THEN "error" ELSE "ok")

----
\* runSyncLoop

\* GetLastContinuationToken succeeded
LoopStart ==
    /\ pc = "start"
    /\ exitCode = -1
    /\ backendType \in Transactional => ~ctxDone
    /\ continuationToken' = syncToken
    /\ pc' = "select"
    /\ UNCHANGED <<configVars, ctxDone, syncToken, locals, sinkVars, tick, prevTick,
                   ticks, restarts, sinkCallVars, mainVars, parseVars, fetcherVars>>

\* GetLastContinuationToken failed: runSyncLoop returns the error
LoopStartFailed ==
    /\ pc = "start"
    /\ exitCode = -1
    /\ backendType \in Transactional
    /\ pc' = "stopped"
    /\ UNCHANGED <<configVars, ctxDone, continuationToken, syncToken, locals, sinkVars,
                   tick, prevTick, ticks, restarts, sinkCallVars, mainVars, parseVars, fetcherVars>>

\* The signal handler: cancel()
Cancel ==
    /\ ~ctxDone
    /\ pc /= "stopped"
    /\ ctxDone' = TRUE
    /\ UNCHANGED <<configVars, pc, continuationToken, syncToken, locals, sinkVars,
                   tick, prevTick, ticks, restarts, sinkCallVars, mainVars, parseVars, fetcherVars>>

\* select: case <-ctx.Done(): return nil
LoopCtxDone ==
    /\ pc = "select"
    /\ exitCode = -1
    /\ ctxDone
    /\ pc' = "stopped"
    /\ UNCHANGED <<configVars, ctxDone, continuationToken, syncToken, locals, sinkVars,
                   tick, prevTick, ticks, restarts, sinkCallVars, mainVars, parseVars, fetcherVars>>

\* select: case <-ticker.C: syncChanges(...) up to FetchChangesWithRetry's pacer.
\* When both channels are ready select takes either.
TickStart ==
    /\ pc = "select"
    /\ ticks < MaxTicks
    /\ pc' = "pacer"
    /\ ticks' = ticks + 1
    /\ prevTick' = [fetchToken |-> tick.fetchToken, outcome |-> tick.outcome,
                    exhausted |-> tick.next = -1 /\ tick.attempts = MaxRetries + 1,
                    written |-> tick.written]
    /\ tick' = [NoTick EXCEPT !.startSync = syncToken,
                              !.fetchToken = continuationToken, !.outcome = "running"]
    /\ UNCHANGED <<configVars, ctxDone, continuationToken, syncToken, locals, sinkVars,
                   restarts, sinkCallVars, mainVars, parseVars, fetcherVars>>

\* FetchChangesWithRetry: no rate limiter, or case <-f.rateLimiter.C
PacerPass ==
    /\ pc = "pacer"
    /\ pc' = "attempt"
    /\ UNCHANGED <<configVars, ctxDone, continuationToken, syncToken, locals, sinkVars,
                   tick, prevTick, ticks, restarts, sinkCallVars, mainVars, parseVars, fetcherVars>>

\* FetchChangesWithRetry: case <-ctx.Done(): return nil, ctx.Err()
PacerCancelled ==
    /\ pc = "pacer"
    /\ ctxDone
    /\ EndTick(tick, "error")
    /\ UNCHANGED <<configVars, ctxDone, continuationToken, syncToken, sinkVars,
                   prevTick, ticks, restarts, sinkCallVars, mainVars, parseVars, fetcherVars>>

\* One attempt of retryWithBackoff succeeds: FetchChangesWithPaging returns the
\* page; syncChanges returns nil at once when the page is empty
FetchOk ==
    /\ pc = "attempt"
    /\ ~ctxDone
    /\ \E tok \in PageTokens(tick.fetchToken) :
         LET changes == PageChanges(tick.fetchToken)
             t == [tick EXCEPT !.next = tok, !.fetched = Len(changes),
                               !.attempts = @ + 1, !.err = "none"]
         IN  IF Len(changes) = 0 THEN EndTick(t, "ok")
             ELSE /\ tick' = t
                  /\ pc' = "write"
                  /\ result' = FetchResult(changes, tok)
                  /\ UNCHANGED <<attempt, sinkOffset, sinkAttempt>>
    /\ UNCHANGED <<configVars, ctxDone, continuationToken, syncToken, sinkVars,
                   prevTick, ticks, restarts, sinkCallVars, mainVars, parseVars, fetcherVars>>

\* The errors of ReadChanges: a network, 5xx or rate-limit failure, or a
\* request-validation or authorization failure
FetchErrors == {"transient", "permanent"}

\* retryWithBackoff returns the error of attempt a: on the last attempt,
\* whatever the error is
GivesUp(a, kind) == LastAttempt(a)

\* One attempt fails: the last one returns the error, the others go to sleep;
\* tick.err is the kind of the tick's last failed attempt
FetchFailed ==
    /\ pc = "attempt"
    /\ \E kind \in FetchErrors :
         LET t == [tick EXCEPT !.attempts = @ + 1, !.err = kind]
         IN  IF GivesUp(attempt, kind)
             THEN EndTick(t, "error")
             ELSE /\ tick' = t
                  /\ pc' = "backoff"
                  /\ attempt' = attempt + 1
                  /\ UNCHANGED <<result, sinkOffset, sinkAttempt>>
    /\ UNCHANGED <<configVars, ctxDone, continuationToken, syncToken, sinkVars,
                   prevTick, ticks, restarts, sinkCallVars, mainVars, parseVars, fetcherVars>>

\* retryWithBackoff: case <-time.After(delay); the delay is not modelled here
\* and may be 0, so the timer's case can be taken after a cancellation too
BackoffElapsed ==
    /\ pc = "backoff"
    /\ pc' = "attempt"
    /\ UNCHANGED <<configVars, ctxDone, continuationToken, syncToken, locals, sinkVars,
                   tick, prevTick, ticks, restarts, sinkCallVars, mainVars, parseVars, fetcherVars>>

\* retryWithBackoff: case <-ctx.Done(): return ctx.Err()
BackoffCancelled ==
    /\ pc = "backoff"
    /\ ctxDone
    /\ EndTick(tick, "error")
    /\ UNCHANGED <<configVars, ctxDone, continuationToken, syncToken, sinkVars,
                   prevTick, ticks, restarts, sinkCallVars, mainVars, parseVars, fetcherVars>>

----
\* syncChanges: the sink write and the cursor save

\* syncChanges calls WriteChanges when cfg.IsChangelogMode() and ApplyChanges
\* when cfg.IsStatefulMode(); the adapter goes on when the call is the one of
\* the mode it was constructed with.  Config.validate accepts the two modes
\* only and NewStorageAdapter constructs the adapter with cfg.Backend.Mode, so
\* in main() the adapter's mode check and syncChanges' final else branch are
\* never taken.
SinkCallOk ==
    \/ mode = StorageModeChangelog /\ WriteChangesModeOk(sinkMode)
    \/ mode = StorageModeStateful /\ ApplyChangesModeOk(sinkMode)

\* WriteChanges / ApplyChanges of a relational adapter commits its transaction
SqlWriteOk ==
    /\ pc = "write"
    /\ backendType \in Transactional
    /\ SinkCallOk
    /\ ~ctxDone
    /\ IF mode = StorageModeChangelog
       THEN /\ changelog' = InsertRows(changelog, result.changes)
            /\ committed' = Record(committed, Timestamps(result.changes))
            /\ tuples' = tuples
       ELSE /\ tuples' = ApplyRows(tuples, result.changes)
            /\ committed' = Record(committed, Timestamps(Recognized(result.changes)))
            /\ changelog' = changelog
    /\ Continue([tick EXCEPT !.written = TRUE, !.applied = TRUE],
                AfterSinkWrite(FALSE, result))
    /\ UNCHANGED <<configVars, ctxDone, continuationToken, syncToken, prevTick, ticks,
                   restarts, sinkCallVars, mainVars, parseVars, fetcherVars>>

\* The transaction fails (BeginTx, a statement or Commit) and is rolled back
SqlWriteFailed ==
    /\ pc = "write"
    /\ backendType \in Transactional
    /\ SinkCallOk
    /\ Continue(tick, AfterSinkWrite(TRUE, result))
    /\ UNCHANGED <<configVars, ctxDone, continuationToken, syncToken, sinkVars,
                   prevTick, ticks, restarts, sinkCallVars, mainVars, parseVars, fetcherVars>>

\* OpenFGAAdapter.applyChanges: processBatch of the batch at sinkOffset succeeds
\* (a batch with no write and no delete sends nothing); after the last batch
\* WriteChanges / ApplyChanges returns nil
BatchOk ==
    /\ pc = "write"
    /\ backendType = "openfga"
    /\ SinkCallOk
    /\ LET batch == BatchAt(result.changes, sinkOffset, batchSize)
           req == BatchRequest(batch)
           last == sinkOffset + batchSize >= Len(result.changes)
       IN  /\ (req.writes = <<>> /\ req.deletes = <<>>) \/ ~ctxDone
           /\ \E order \in RequestOrders :
                LET effect == RequestEffect(req, order)
                    t == [tick EXCEPT !.applied = @ \/ effect /= <<>>]
                IN  /\ tuples' = ApplyInOrder(tuples, effect)
                    /\ committed' = Record(committed, Timestamps(effect))
                    /\ IF last
                       THEN Continue([t EXCEPT !.written = TRUE],
                                     AfterSinkWrite(FALSE, result))
                       ELSE /\ tick' = t
                            /\ pc' = "write"
                            /\ sinkOffset' = sinkOffset + batchSize
                            /\ UNCHANGED <<result, attempt, sinkAttempt>>
    /\ UNCHANGED <<configVars, ctxDone, continuationToken, syncToken, changelog,
                   prevTick, ticks, restarts, sinkCallVars, mainVars, parseVars, fetcherVars>>

\* executeWrite fails: applyChanges returns the error to applyChangesWithRetry,
\* which sleeps and starts over, or gives up after maxRetries + 1 attempts
BatchFailed ==
    /\ pc = "write"
    /\ backendType = "openfga"
    /\ SinkCallOk
    /\ LET req == BatchRequest(BatchAt(result.changes, sinkOffset, batchSize))
       IN  req.writes /= <<>> \/ req.deletes /= <<>>
    /\ IF sinkAttempt = SinkMaxRetries
       THEN Continue(tick, AfterSinkWrite(TRUE, result))
       ELSE /\ tick' = tick
            /\ pc' = "sinkBackoff"
            /\ sinkAttempt' = sinkAttempt + 1
            /\ sinkOffset' = 0
            /\ UNCHANGED <<result, attempt>>
    /\ UNCHANGED <<configVars, ctxDone, continuationToken, syncToken, sinkVars,
                   prevTick, ticks, restarts, sinkCallVars, mainVars, parseVars, fetcherVars>>

\* applyChangesWithRetry: case <-time.After(...): applyChanges again, from the
\* first batch
SinkBackoffElapsed ==
    /\ pc = "sinkBackoff"
    /\ pc' = "write"
    /\ UNCHANGED <<configVars, ctxDone, continuationToken, syncToken, locals, sinkVars,
                   tick, prevTick, ticks, restarts, sinkCallVars, mainVars, parseVars, fetcherVars>>

\* applyChangesWithRetry: case <-ctx.Done(): return ctx.Err()
SinkBackoffCancelled ==
    /\ pc = "sinkBackoff"
    /\ ctxDone
    /\ Continue(tick, AfterSinkWrite(TRUE, result))
    /\ UNCHANGED <<configVars, ctxDone, continuationToken, syncToken, sinkVars,
                   prevTick, ticks, restarts, sinkCallVars, mainVars, parseVars, fetcherVars>>

\* SaveContinuationToken succeeds (the OpenFGA adapter's never fails)
SaveOk ==
    /\ pc = "save"
    /\ backendType \in Transactional => ~ctxDone
    /\ syncToken' = result.token
    /\ continuationToken' = TokenAfterSave(FALSE, continuationToken, result.token)
    /\ EndTick(tick, "ok")
    /\ UNCHANGED <<configVars, ctxDone, sinkVars, prevTick, ticks, restarts,
                   sinkCallVars, mainVars, parseVars, fetcherVars>>

\* SaveContinuationToken fails: syncChanges returns the error
SaveFailed ==
    /\ pc = "save"
    /\ backendType \in Transactional
    /\ continuationToken' = TokenAfterSave(TRUE, continuationToken, result.token)
    /\ EndTick(tick, "error")
    /\ UNCHANGED <<configVars, ctxDone, syncToken, sinkVars, prevTick, ticks, restarts,
                   sinkCallVars, mainVars, parseVars, fetcherVars>>

\* A faulty variant: the OpenFGA adapter's token outlives the adapter
TokenAfterRestartDurable(backend, token) == token

\* The token a newly constructed adapter holds: sync_state keeps its row, the
\* OpenFGA adapter's lastToken starts as ""
TokenAfterRestart(backend, token) == IF backend = "openfga" THEN 0 ELSE token

\* The process ends (a crash, a kill, or after a shutdown) and is started again:
\* main() builds a new adapter and calls runSyncLoop.  What the sink committed
\* stays; the OpenFGA adapter's lastToken is a field of the old adapter.
Restart ==
    /\ restarts < MaxRestarts
    /\ restarts' = restarts + 1
    /\ pc' = "start"
    /\ ctxDone' = FALSE
    /\ continuationToken' = 0
    /\ syncToken' = TokenAfterRestart(backendType, syncToken)
    /\ tick' = IF tick.outcome = "running"
               THEN [tick EXCEPT !.outcome = "killed"]
               ELSE NoTick
    /\ prevTick' = NoPrevTick
    /\ result' = NoResult
    /\ attempt' = 0
    /\ sinkOffset' = 0
    /\ sinkAttempt' = 0
    /\ UNCHANGED <<configVars, sinkVars, ticks, sinkCallVars, mainVars, parseVars, fetcherVars>>

Next ==
    \/ LoopStart
    \/ LoopStartFailed
    \/ Cancel
    \/ LoopCtxDone
    \/ TickStart
    \/ PacerPass
    \/ PacerCancelled
    \/ FetchOk
    \/ FetchFailed
    \/ BackoffElapsed
    \/ BackoffCancelled
    \/ SqlWriteOk
    \/ SqlWriteFailed
    \/ BatchOk
    \/ BatchFailed
    \/ SinkBackoffElapsed
    \/ SinkBackoffCancelled
    \/ SaveOk
    \/ SaveFailed
    \/ Restart

Spec == Init /\ [][Next]_vars

----
\* The StorageAdapter interface called directly

Conditions == {"", "{\"name\":\"ip_allowlist\"}"}

\* The events a caller may pass: writes with and without a condition, deletes, a
\* lower-case operation and an operation the adapters do not know
SinkEvents ==
    {ChangeEvent("WRITE", k, c, 1) : k \in Keys, c \in Conditions}
      \cup {ChangeEvent("Delete", k, "", 1) : k \in Keys}
      \cup {ChangeEvent("write", K1, "", 1), ChangeEvent("READ", K1, "", 1)}

RECURSIVE SeqsUpTo(_, _)
SeqsUpTo(S, n) ==
    IF n = 0 THEN {<<>>}
    ELSE LET shorter == SeqsUpTo(S, n - 1)
         IN  shorter \cup {Append(q, x) : q \in {r \in shorter : Len(r) = n - 1}, x \in S}

Batches == SeqsUpTo(SinkEvents, MaxBatch)

\* The last event of the batch for key k among the recognized writes and deletes,
\* found from the end of the batch; prev when the batch has none
LastRecognized(events, k, prev) ==
    LET names == {"WRITE", "TUPLE_TO_USERSET_WRITE", "DELETE", "TUPLE_TO_USERSET_DELETE"}
        idx == {i \in 1..Len(events) :
                   KeyOf(events[i]) = k /\ ToUpper(events[i].operation) \in names}
    IN  IF idx = {} THEN prev
        ELSE LET e == events[CHOOSE i \in idx : \A j \in idx : j <= i]
             IN  IF ToUpper(e.operation) \in {"WRITE", "TUPLE_TO_USERSET_WRITE"}
                 THEN [kind |-> "write", condition |-> e.condition]
                 ELSE [kind |-> "delete", condition |-> ""]

InitSink ==
    /\ backendType \in BackendTypes
    /\ mode \in StorageModes
    /\ batchSize \in (IF backendType = "openfga" THEN 1..MaxBatchSize ELSE {MaxBatchSize})
    /\ maxChanges = 0
    /\ sinkMode = mode
    /\ stream = <<>>
    /\ pc = "idle"
    /\ ctxDone = FALSE
    /\ continuationToken = 0
    /\ syncToken = 0
    /\ result = NoResult
    /\ attempt = 0
    /\ sinkOffset = 0
    /\ sinkAttempt = 0
    /\ changelog = <<>>
    /\ tuples = {}
    /\ committed = <<>>
    /\ tick = NoTick
    /\ prevTick = NoPrevTick
    /\ ticks = 0
    /\ restarts = 0
    /\ call = NoCall
    /\ lastEv = [k \in Keys |-> NoEvent]
    /\ InitMainVars
    /\ InitParseVars
    /\ InitFetcherVars

\* A caller hands a batch to WriteChanges or ApplyChanges
Invoke ==
    /\ pc = "idle"
    /\ \E op \in {"WriteChanges", "ApplyChanges"}, events \in Batches :
         /\ Len(changelog) + Len(events) <= MaxLog
         /\ call' = [op |-> op, events |-> events, err |-> FALSE,
                     rowsBefore |-> tuples, logBefore |-> changelog]
    /\ pc' = "called"
    /\ UNCHANGED <<configVars, ctxDone, continuationToken, syncToken, locals, sinkVars,
                   tick, prevTick, ticks, restarts, lastEv, mainVars, parseVars, fetcherVars>>

\* The call returns err and leaves the sink as it was
Fails ==
    /\ call' = [call EXCEPT !.err = TRUE]
    /\ UNCHANGED <<changelog, tuples, lastEv>>

\* The call returns nil
Returns(log, rows) ==
    /\ call' = call
    /\ changelog' = log
    /\ tuples' = rows
    /\ lastEv' = IF backendType \in Transactional /\ call.op = "ApplyChanges"
                 THEN [k \in Keys |-> LastRecognized(call.events, k, lastEv[k])]
                 ELSE lastEv

\* A faulty variant: the statements run outside a transaction, the rows inserted
\* before the error stay
NotRolledBack(log, inserted) == log \o inserted

\* The deferred tx.Rollback() of a transaction that was not committed
RolledBack(log, inserted) == log

\* WriteChanges of a relational adapter returns an error: BeginTx or Prepare
\* failed (n = 0), the INSERT of event n + 1 failed, or Commit failed
\* (n = Len(events)); the n rows already inserted are rolled back
InsertFailsAt(n) ==
    /\ call' = [call EXCEPT !.err = TRUE]
    /\ changelog' = RolledBack(changelog, InsertRows(<<>>, SubSeq(call.events, 1, n)))
    /\ UNCHANGED <<tuples, lastEv>>

\* The call returns to its caller
ReturnsNow ==
    /\ pc' = "returned"
    /\ sinkOffset' = 0
    /\ sinkAttempt' = 0

\* The OpenFGA adapter's call enters applyChangesWithRetry: attempt := 0, and
\* applyChanges starts at i := 0
EntersRetryLoop ==
    /\ pc' = "applying"
    /\ sinkOffset' = 0
    /\ sinkAttempt' = 0
    /\ UNCHANGED <<call, changelog, tuples, lastEv>>

\* WriteChanges of the three adapters, up to the OpenFGA adapter's first batch
WriteChanges ==
    /\ pc = "called"
    /\ call.op = "WriteChanges"
    /\ IF Len(call.events) = 0 THEN Returns(changelog, tuples) /\ ReturnsNow
       ELSE IF ~WriteChangesModeOk(mode) THEN Fails /\ ReturnsNow
       ELSE IF backendType \in Transactional
            THEN /\ \/ ~ctxDone /\ Returns(InsertRows(changelog, call.events), tuples)
                    \/ \E n \in 0..Len(call.events) : InsertFailsAt(n)
                 /\ ReturnsNow
            ELSE EntersRetryLoop
    /\ UNCHANGED <<configVars, ctxDone, continuationToken, syncToken, result, attempt,
                   committed, tick, prevTick, ticks, restarts, mainVars, parseVars,
                   fetcherVars>>

\* ApplyChanges of the three adapters, up to the OpenFGA adapter's first batch
ApplyChanges ==
    /\ pc = "called"
    /\ call.op = "ApplyChanges"
    /\ IF Len(call.events) = 0 THEN Returns(changelog, tuples) /\ ReturnsNow
       ELSE IF ~ApplyChangesModeOk(mode) THEN Fails /\ ReturnsNow
       ELSE IF backendType \in Transactional
            THEN /\ \/ ~ctxDone /\ Returns(changelog, ApplyRows(tuples, call.events))
                    \/ Fails
                 /\ ReturnsNow
            ELSE EntersRetryLoop
    /\ UNCHANGED <<configVars, ctxDone, continuationToken, syncToken, result, attempt,
                   committed, tick, prevTick, ticks, restarts, mainVars, parseVars,
                   fetcherVars>>

\* OpenFGAAdapter.applyChanges: processBatch of the batch at sinkOffset succeeds
\* (a batch with no write and no delete sends nothing); the target keeps what
\* the request wrote.  After the last batch the call returns nil.
TargetBatchOk ==
    /\ pc = "applying"
    /\ LET req == BatchRequest(BatchAt(call.events, sinkOffset, batchSize))
           last == sinkOffset + batchSize >= Len(call.events)
       IN  /\ (req.writes = <<>> /\ req.deletes = <<>>) \/ ~ctxDone
           /\ \E order \in RequestOrders :
                LET rows == ApplyInOrder(tuples, RequestEffect(req, order))
                IN  IF last
                    THEN Returns(changelog, rows) /\ ReturnsNow
                    ELSE /\ tuples' = rows
                         /\ sinkOffset' = sinkOffset + batchSize
                         /\ UNCHANGED <<pc, call, changelog, lastEv, sinkAttempt>>
    /\ UNCHANGED <<configVars, ctxDone, continuationToken, syncToken, result, attempt,
                   committed, tick, prevTick, ticks, restarts, mainVars, parseVars,
                   fetcherVars>>

\* executeWrite fails: applyChanges returns the error, the batches before it
\* stay written; applyChangesWithRetry sleeps and starts over from the first
\* batch, or returns the error after maxRetries + 1 attempts
TargetBatchFails ==
    /\ pc = "applying"
    /\ LET req == BatchRequest(BatchAt(call.events, sinkOffset, batchSize))
       IN  req.writes /= <<>> \/ req.deletes /= <<>>
    /\ IF sinkAttempt = SinkMaxRetries
       THEN /\ call' = [call EXCEPT !.err = TRUE]
            /\ ReturnsNow
       ELSE /\ pc' = "sinkBackoff"
            /\ sinkAttempt' = sinkAttempt + 1
            /\ sinkOffset' = 0
            /\ call' = call
    /\ UNCHANGED <<configVars, ctxDone, continuationToken, syncToken, result, attempt,
                   sinkVars, tick, prevTick, ticks, restarts, lastEv, mainVars,
                   parseVars, fetcherVars>>

\* applyChangesWithRetry: case <-time.After(...)
TargetRetry ==
    /\ pc = "sinkBackoff"
    /\ pc' = "applying"
    /\ UNCHANGED <<configVars, ctxDone, continuationToken, syncToken, locals, sinkVars,
                   tick, prevTick, ticks, restarts, sinkCallVars, mainVars, parseVars,
                   fetcherVars>>

\* applyChangesWithRetry: case <-ctx.Done(): return ctx.Err()
TargetRetryCancelled ==
    /\ pc = "sinkBackoff"
    /\ ctxDone
    /\ call' = [call EXCEPT !.err = TRUE]
    /\ ReturnsNow
    /\ UNCHANGED <<configVars, ctxDone, continuationToken, syncToken, result, attempt,
                   sinkVars, tick, prevTick, ticks, restarts, lastEv, mainVars,
                   parseVars, fetcherVars>>

\* The context the caller passed to the running call is cancelled
CallCtxCancelled ==
    /\ pc \in {"called", "applying", "sinkBackoff"}
    /\ ~ctxDone
    /\ ctxDone' = TRUE
    /\ UNCHANGED <<configVars, pc, continuationToken, syncToken, locals, sinkVars,
                   tick, prevTick, ticks, restarts, sinkCallVars, mainVars, parseVars,
                   fetcherVars>>

\* The caller has seen the result; the next call gets a context of its own
Return ==
    /\ pc = "returned"
    /\ pc' = "idle"
    /\ call' = NoCall
    /\ ctxDone' = FALSE
    /\ UNCHANGED <<configVars, continuationToken, syncToken, locals, sinkVars,
                   tick, prevTick, ticks, restarts, lastEv, mainVars, parseVars, fetcherVars>>

NextSink ==
    \/ Invoke
    \/ WriteChanges
    \/ ApplyChanges
    \/ TargetBatchOk
    \/ TargetBatchFails
    \/ TargetRetry
    \/ TargetRetryCancelled
    \/ CallCtxCancelled
    \/ Return

SpecSink == InitSink /\ [][NextSink]_vars

----
\* main(): the process from the start of the sync loop to its exit, with the
\* shutdown handler, its watcher and the ticker.  A tick is the call of
\* syncChanges (its steps are those of Spec); here it is entered and returns.

tickVars == <<configVars, continuationToken, syncToken, locals, sinkVars, tick, prevTick,
              restarts, sinkCallVars, parseVars, fetcherVars>>

InitMain ==
    /\ backendType \in BackendTypes
    /\ mode = StorageModeChangelog
    /\ batchSize = MaxBatchSize
    /\ maxChanges = 0
    /\ sinkMode = mode
    /\ stream = <<>>
    /\ pc = "start"
    /\ ctxDone = FALSE
    /\ continuationToken = 0
    /\ syncToken = 0
    /\ result = NoResult
    /\ attempt = 0
    /\ sinkOffset = 0
    /\ sinkAttempt = 0
    /\ changelog = <<>>
    /\ tuples = {}
    /\ committed = <<>>
    /\ tick = NoTick
    /\ prevTick = NoPrevTick
    /\ ticks = 0
    /\ restarts = 0
    /\ call = NoCall
    /\ lastEv = [k \in Keys |-> NoEvent]
    /\ InitMainVars
    /\ InitParseVars
    /\ InitFetcherVars

\* The operating system delivers SIGINT / SIGTERM: signal.Notify's send on
\* sigChan does not block, a signal that finds the buffer full is dropped
SignalArrives ==
    /\ exitCode = -1
    /\ signals < MaxSignals
    /\ signals' = signals + 1
    /\ sigChan' = 1
    /\ UNCHANGED <<tickVars, pc, ctxDone, ticks, tickerC, handler, shutdownTimer,
                   watcher, inFlight, closes, exitCode>>

\* The handler: sig := <-sigChan
HandlerReceives ==
    /\ exitCode = -1
    /\ handler = "waiting"
    /\ sigChan = 1
    /\ sigChan' = 0
    /\ handler' = "received"
    /\ UNCHANGED <<tickVars, pc, ctxDone, ticks, tickerC, signals, shutdownTimer, watcher,
                   inFlight, closes, exitCode>>

\* The handler: cancel()
HandlerCancels ==
    /\ exitCode = -1
    /\ handler = "received"
    /\ ctxDone' = TRUE
    /\ handler' = "cancelled"
    /\ UNCHANGED <<tickVars, pc, ticks, tickerC, sigChan, signals, shutdownTimer, watcher,
                   inFlight, closes, exitCode>>

\* The handler: shutdownTimer := time.NewTimer(30 * time.Second)
HandlerNewTimer ==
    /\ exitCode = -1
    /\ handler = "cancelled"
    /\ shutdownTimer' = "running"
    /\ handler' = "timer"
    /\ UNCHANGED <<tickVars, pc, ctxDone, ticks, tickerC, sigChan, signals, watcher,
                   inFlight, closes, exitCode>>

\* The handler: go func() { select ... }()
HandlerStartsWatcher ==
    /\ exitCode = -1
    /\ handler = "timer"
    /\ watcher' = "select"
    /\ handler' = "started"
    /\ UNCHANGED <<tickVars, pc, ctxDone, ticks, tickerC, sigChan, signals, shutdownTimer,
                   inFlight, closes, exitCode>>

\* The handler's function returns: defer shutdownTimer.Stop().  The timer's
\* channel is synchronous (go 1.23): after Stop no receive from it succeeds,
\* whether the 30 s had passed or not.
HandlerReturns ==
    /\ exitCode = -1
    /\ handler = "started"
    /\ handler' = "returned"
    /\ shutdownTimer' = "stopped"
    /\ UNCHANGED <<tickVars, pc, ctxDone, ticks, tickerC, sigChan, signals, watcher,
                   inFlight, closes, exitCode>>

\* 30 seconds pass before the timer is stopped
ShutdownTimerFires ==
    /\ exitCode = -1
    /\ shutdownTimer = "running"
    /\ shutdownTimer' = "fired"
    /\ UNCHANGED <<tickVars, pc, ctxDone, ticks, tickerC, sigChan, signals, handler,
                   watcher, inFlight, closes, exitCode>>

\* The watcher's select: case sig2 := <-sigChan: os.Exit(1)
WatcherSecondSignal ==
    /\ exitCode = -1
    /\ watcher = "select"
    /\ sigChan = 1
    /\ sigChan' = 0
    /\ watcher' = "returned"
    /\ exitCode' = 1
    /\ UNCHANGED <<tickVars, pc, ctxDone, ticks, tickerC, signals, handler,
                   shutdownTimer, inFlight, closes>>

\* The watcher's select: case <-shutdownTimer.C: os.Exit(1)
WatcherTimeout ==
    /\ exitCode = -1
    /\ watcher = "select"
    /\ shutdownTimer = "fired"
    /\ watcher' = "returned"
    /\ exitCode' = 1
    /\ UNCHANGED <<tickVars, pc, ctxDone, ticks, tickerC, sigChan, signals, handler,
                   shutdownTimer, inFlight, closes>>

\* The watcher's select: case <-ctx.Done(): return.  ctx is the context the
\* handler has cancelled before it started the watcher.
WatcherCtxDone ==
    /\ exitCode = -1
    /\ watcher = "select"
    /\ ctxDone
    /\ watcher' = "returned"
    /\ UNCHANGED <<tickVars, pc, ctxDone, ticks, tickerC, sigChan, signals, handler,
                   shutdownTimer, inFlight, closes, exitCode>>

\* The poll interval passes: the ticker sends on ticker.C unless it holds a tick
TickerFires ==
    /\ exitCode = -1
    /\ ~tickerC
    /\ tickerC' = TRUE
    /\ UNCHANGED <<tickVars, pc, ctxDone, ticks, sigChan, signals, handler,
                   shutdownTimer, watcher, inFlight, closes, exitCode>>

\* A faulty variant: the tick is started whenever the ticker fires
CanStartTickWhileRunning(p) == p \in {"select", "tick"}

\* runSyncLoop receives from ticker.C only in its select, which it reaches when
\* the call of syncChanges has returned
CanStartTick(p) == p = "select"

\* select: case <-ticker.C: syncChanges(...) is entered
SyncChangesCalled ==
    /\ exitCode = -1
    /\ CanStartTick(pc)
    /\ tickerC
    /\ ticks < MaxTicks
    /\ tickerC' = FALSE
    /\ ticks' = ticks + 1
    /\ inFlight' = inFlight + 1
    /\ pc' = "tick"
    /\ UNCHANGED <<tickVars, ctxDone, sigChan, signals, handler, shutdownTimer, watcher,
                   closes, exitCode>>

\* syncChanges returns, nil or an error that runSyncLoop logs
SyncChangesReturns ==
    /\ exitCode = -1
    /\ pc = "tick"
    /\ inFlight' = inFlight - 1
    /\ pc' = "select"
    /\ UNCHANGED <<tickVars, ctxDone, ticks, tickerC, sigChan, signals, handler,
                   shutdownTimer, watcher, closes, exitCode>>

\* main after runSyncLoop returned: httpServer.SetReady(false), httpServer.Stop
StopHttpServer ==
    /\ exitCode = -1
    /\ pc = "stopped"
    /\ pc' = "httpStopped"
    /\ UNCHANGED <<tickVars, ctxDone, ticks, mainVars>>

\* A faulty variant: Close is also deferred, and so is called a second time
ClosedTwice(n) == n + 2

\* One call of Close
Closed(n) == n + 1

\* storageAdapter.Close()
CloseStorage ==
    /\ exitCode = -1
    /\ pc = "httpStopped"
    /\ closes' = [closes EXCEPT !.sink = Closed(@)]
    /\ pc' = "sinkClosed"
    /\ UNCHANGED <<tickVars, ctxDone, ticks, tickerC, sigChan, signals, handler,
                   shutdownTimer, watcher, inFlight, exitCode>>

\* fgaFetcher.Close(), telemetryProvider.Shutdown
CloseFetcher ==
    /\ exitCode = -1
    /\ pc = "sinkClosed"
    /\ closes' = [closes EXCEPT !.fetcher = Closed(@)]
    /\ pc' = "fetcherClosed"
    /\ UNCHANGED <<tickVars, ctxDone, ticks, tickerC, sigChan, signals, handler,
                   shutdownTimer, watcher, inFlight, exitCode>>

\* main returns: the process exits with code 0
MainReturns ==
    /\ exitCode = -1
    /\ pc = "fetcherClosed"
    /\ pc' = "returned"
    /\ exitCode' = 0
    /\ UNCHANGED <<tickVars, ctxDone, ticks, tickerC, sigChan, signals, handler,
                   shutdownTimer, watcher, inFlight, closes>>

MainSteps ==
    \/ LoopStart
    \/ LoopStartFailed
    \/ LoopCtxDone
    \/ SyncChangesCalled
    \/ SyncChangesReturns
    \/ StopHttpServer
    \/ CloseStorage
    \/ CloseFetcher
    \/ MainReturns

NextMain ==
    \/ SignalArrives
    \/ HandlerReceives
    \/ HandlerCancels
    \/ HandlerNewTimer
    \/ HandlerStartsWatcher
    \/ HandlerReturns
    \/ ShutdownTimerFires
    \/ WatcherSecondSignal
    \/ WatcherTimeout
    \/ WatcherCtxDone
    \/ TickerFires
    \/ LoopStart
    \/ LoopStartFailed
    \/ LoopCtxDone
    \/ SyncChangesCalled
    \/ SyncChangesReturns
    \/ StopHttpServer
    \/ CloseStorage
    \/ CloseFetcher
    \/ MainReturns

\* The goroutines are scheduled, the calls of a tick return, and a select with
\* several ready cases takes each of them again and again
SpecMain ==
    /\ InitMain
    /\ [][NextMain]_vars
    /\ WF_vars(MainSteps)
    /\ SF_vars(LoopCtxDone)
    /\ WF_vars(HandlerReceives)
    /\ WF_vars(HandlerCancels)
    /\ WF_vars(HandlerNewTimer)
    /\ WF_vars(HandlerStartsWatcher)
    /\ WF_vars(HandlerReturns)
    /\ WF_vars(WatcherCtxDone \/ WatcherSecondSignal \/ WatcherTimeout)

----
\* The identity parsers of the fetcher.  A Go string is the sequence of its
\* characters; "" is <<>>.

Chars == {"a", ":", "#"}
Strs == SeqsUpTo(Chars, MaxStrLen)

DefaultUserType == <<"u", "s", "e", "r">>
DefaultObjectType == <<"o", "b", "j", "e", "c", "t">>

\* strings.Contains(s, c) for a one-character c
Contains(s, c) == \E i \in 1..Len(s) : s[i] = c

\* strings.SplitN(s, sep, 2) for a one-character sep: the text before the first
\* sep and the text after it, or s alone when it has no sep
SplitN2(s, sep) ==
    IF Contains(s, sep)
    THEN LET i == CHOOSE j \in 1..Len(s) : s[j] = sep /\ \A k \in 1..(j - 1) : s[k] /= sep
         IN  <<SubSeq(s, 1, i - 1), SubSeq(s, i + 1, Len(s))>>
    ELSE <<s>>

parseUserTypeAndID(user) ==
    IF user = <<>> THEN [type |-> DefaultUserType, id |-> <<>>]
    ELSE IF Contains(user, "#")
    THEN LET parts == SplitN2(user, ":")
         IN  IF Len(parts) = 2 THEN [type |-> parts[1], id |-> parts[2]]
             ELSE [type |-> DefaultUserType, id |-> user]
    ELSE LET parts == SplitN2(user, ":")
         IN  IF Contains(user, ":") /\ Len(parts) = 2 /\ parts[1] /= <<>>
             THEN [type |-> parts[1], id |-> parts[2]]
             ELSE [type |-> DefaultUserType, id |-> user]

parseObjectTypeAndID(object) ==
    IF object = <<>> THEN [type |-> DefaultObjectType, id |-> <<>>]
    ELSE LET parts == SplitN2(object, ":")
         IN  IF Contains(object, ":") /\ Len(parts) = 2 /\ parts[1] /= <<>>
             THEN [type |-> parts[1], id |-> parts[2]]
             ELSE [type |-> DefaultObjectType, id |-> object]

InitParse ==
    /\ backendType = "sqlite"
    /\ mode = StorageModeChangelog
    /\ batchSize = MaxBatchSize
    /\ maxChanges = 0
    /\ sinkMode = mode
    /\ stream = <<>>
    /\ pc = "idle"
    /\ ctxDone = FALSE
    /\ continuationToken = 0
    /\ syncToken = 0
    /\ result = NoResult
    /\ attempt = 0
    /\ sinkOffset = 0
    /\ sinkAttempt = 0
    /\ changelog = <<>>
    /\ tuples = {}
    /\ committed = <<>>
    /\ tick = NoTick
    /\ prevTick = NoPrevTick
    /\ ticks = 0
    /\ restarts = 0
    /\ call = NoCall
    /\ lastEv = [k \in Keys |-> NoEvent]
    /\ InitMainVars
    /\ response = [changes |-> <<>>, token |-> 0]
    /\ warnings = 0
    /\ input \in Strs
    /\ output = [fn |-> "none", type |-> <<>>, id |-> <<>>]
    /\ InitFetcherVars

restOfParse == <<configVars, pc, ctxDone, continuationToken, syncToken, locals, sinkVars,
                 tick, prevTick, ticks, restarts, sinkCallVars, mainVars, response,
                 warnings, input, fetcherVars>>

\* A caller parses the string as a user
CallParseUser ==
    /\ output.fn = "none"
    /\ LET r == parseUserTypeAndID(input)
       IN  output' = [fn |-> "parseUserTypeAndID", type |-> r.type, id |-> r.id]
    /\ UNCHANGED restOfParse

\* A caller parses the string as an object
CallParseObject ==
    /\ output.fn = "none"
    /\ LET r == parseObjectTypeAndID(input)
       IN  output' = [fn |-> "parseObjectTypeAndID", type |-> r.type, id |-> r.id]
    /\ UNCHANGED restOfParse

\* A faulty variant: the type and the ID are joined without the separator
JoinWithoutSeparator(type, id) == type \o id

\* convertToTupleKey's user and object: type + ":" + id, or the ID alone when
\* the type is empty
JoinTypeAndID(type, id) == IF type /= <<>> THEN type \o <<":">> \o id ELSE id

\* The OpenFGA sink builds the tuple's user or object from the parsed event
ConvertParsed ==
    /\ output.fn \in {"parseUserTypeAndID", "parseObjectTypeAndID"}
    /\ output' = [fn |-> "convertToTupleKey", type |-> output.type, id |-> output.id,
                  joined |-> JoinTypeAndID(output.type, output.id)]
    /\ UNCHANGED restOfParse

NextParse ==
    \/ CallParseUser
    \/ CallParseObject
    \/ ConvertParsed

SpecParse == InitParse /\ [][NextParse]_vars

----
\* The fetcher's parser and one tick over a page of wire records (SpecFetch):
\* the fetch, the sink write and the save of the token are steps of their own
\* and each of them can fail; the retries of the fetch are those of SpecRetry.

\* json.Marshal(change) of the SDK's change record
MarshalWire(rec) == [json |-> "Change", value |-> rec]

TupleKeyAbsent ==
    [present |-> FALSE, user |-> <<>>, relation |-> "", object |-> <<>>,
     condition |-> "none"]

WireKey(user, relation, object, cond) ==
    [present |-> TRUE, user |-> user, relation |-> relation, object |-> object,
     condition |-> cond]

WireChange(op, ts, key) == [operation |-> op, timestamp |-> ts, tuple_key |-> key]

\* The records a page is made of: a write and a delete of user a:a on object
\* a:a, a record without tuple_key, and a conditioned write without timestamp
\* whose object has an empty id
WireSamples ==
    LET aa == <<"a", ":", "a">>
    IN  {WireChange("WRITE", 1500, WireKey(aa, "viewer", aa, "none")),
         WireChange("DELETE", 2000, WireKey(aa, "viewer", aa, "none")),
         WireChange("WRITE", 1000, TupleKeyAbsent),
         WireChange("WRITE", 0, WireKey(aa, "viewer", <<"a", ":">>, "ip_allowlist"))}

Pages == SeqsUpTo(WireSamples, MaxPage)

\* The values time.Now() can give while a page is parsed
Clock == {2500, 3000}

\* json.Marshal(conditionMap) of the tuple key's condition, "" without one
ConditionJSON(c) ==
    CASE c = "none" -> ""
      [] c = "ip_allowlist" -> "{\"name\":\"ip_allowlist\"}"

determineChangeType(operation) ==
    IF IsWriteOp(operation) THEN "tuple_write"
    ELSE IF IsDeleteOp(operation) THEN "tuple_delete"
    ELSE "tuple_change"

\* parseChangeEvent: the fields are read when they are there; no missing field
\* is an error
parseChangeEvent(rec, now) ==
    LET key == rec.tuple_key
        user == IF key.present THEN key.user ELSE <<>>
        relation == IF key.present THEN key.relation ELSE ""
        object == IF key.present THEN key.object ELSE <<>>
        condition == IF key.present THEN ConditionJSON(key.condition) ELSE ""
        u == parseUserTypeAndID(user)
        o == parseObjectTypeAndID(object)
    IN  [operation |-> rec.operation,
         object_type |-> o.type, object_id |-> o.id, relation |-> relation,
         user_type |-> u.type, user_id |-> u.id, condition |-> condition,
         timestamp |-> IF rec.timestamp = 0 THEN now ELSE rec.timestamp,
         change_type |-> determineChangeType(rec.operation),
         raw_json |-> MarshalWire(rec)]

\* FetchChangesWithPaging's loop: parseChangeEvent returned no error, so every
\* record's event is appended
ParsePage(records, nows) ==
    [i \in 1..Len(records) |-> parseChangeEvent(records[i], nows[i])]

\* The readings of time.Now() of the n calls of parseChangeEvent, one after the
\* other
ClockReadings(n) ==
    {nows \in [1..n -> Clock] : \A i \in 1..(n - 1) : nows[i] <= nows[i + 1]}

\* ValidateChangeEvent returns nil
ValidChangeEvent(ev) ==
    /\ ev.object_type /= <<>>
    /\ ev.object_id /= <<>>
    /\ ev.relation /= ""
    /\ ev.user_type /= <<>>
    /\ ev.user_id /= <<>>
    /\ ev.change_type /= ""
    /\ ev.timestamp /= 0

InitFetch ==
    /\ backendType \in Transactional
    /\ mode \in StorageModes
    /\ batchSize = MaxBatchSize
    /\ maxChanges \in 0..MaxLimit
    /\ sinkMode = mode
    /\ stream = <<>>
    /\ pc = "idle"
    /\ ctxDone = FALSE
    /\ continuationToken = 0
    /\ syncToken = 0
    /\ result = NoResult
    /\ attempt = 0
    /\ sinkOffset = 0
    /\ sinkAttempt = 0
    /\ changelog = <<>>
    /\ tuples = {}
    /\ committed = <<>>
    /\ tick = NoTick
    /\ prevTick = NoPrevTick
    /\ ticks = 0
    /\ restarts = 0
    /\ call = NoCall
    /\ lastEv = [k \in Keys |-> NoEvent]
    /\ InitMainVars
    /\ response \in [changes : Pages, token : {0, 1}]
    /\ warnings = 0
    /\ input = <<>>
    /\ output = [fn |-> "none", type |-> <<>>, id |-> <<>>]
    /\ \E v \in BOOLEAN :
           fetcher = [options |-> [fetchOptions EXCEPT !.enableValidation = v],
                      rateLimiter |-> 0, stats |-> NoStats, mutex |-> <<>>]
    /\ timers = <<>>
    /\ retry = NoRetry

\* FetchChangesWithRetry returns the page: FetchChangesWithPaging parses the
\* response; `if f.options.EnableValidation` the validation logs a warning for
\* every event it finds invalid; the result is returned as parsed
FetchPage ==
    /\ pc = "idle"
    /\ \E nows \in ClockReadings(Len(response.changes)) :
         LET changes == ParsePage(response.changes, nows)
         IN  /\ result' = FetchResult(changes, response.token)
             /\ warnings' = IF fetcher.options.enableValidation
                            THEN Cardinality({i \in 1..Len(changes) :
                                                 ~ValidChangeEvent(changes[i])})
                            ELSE 0
    /\ pc' = "fetched"
    /\ UNCHANGED <<configVars, ctxDone, continuationToken, syncToken, attempt, sinkOffset,
                   sinkAttempt, sinkVars, tick, prevTick, ticks, restarts, sinkCallVars,
                   mainVars, response, input, output, fetcherVars>>

\* FetchChangesWithRetry returns an error: syncChanges returns it
FetchPageFails ==
    /\ pc = "idle"
    /\ pc' = "failed"
    /\ tick' = [tick EXCEPT !.err = "fetch"]
    /\ UNCHANGED <<configVars, ctxDone, continuationToken, syncToken, locals, sinkVars,
                   prevTick, ticks, restarts, sinkCallVars, mainVars, parseVars,
                   fetcherVars>>

\* The sink call of syncChanges for the mode, with the fetched events
PageCall ==
    [op |-> IF mode = StorageModeChangelog THEN "WriteChanges" ELSE "ApplyChanges",
     events |-> result.changes, err |-> FALSE,
     rowsBefore |-> tuples, logBefore |-> changelog]

\* syncChanges after the fetch: `if len(result.Changes) == 0 { return nil }`
PageEmpty ==
    /\ pc = "fetched"
    /\ Len(result.changes) = 0
    /\ pc' = "done"
    /\ UNCHANGED <<configVars, ctxDone, continuationToken, syncToken, locals, sinkVars,
                   tick, prevTick, ticks, restarts, sinkCallVars, mainVars, parseVars,
                   fetcherVars>>

\* syncChanges: WriteChanges / ApplyChanges returns nil, the rows are committed
PageWritten ==
    /\ pc = "fetched"
    /\ Len(result.changes) > 0
    /\ call' = PageCall
    /\ IF mode = StorageModeChangelog
       THEN changelog' = InsertRows(changelog, result.changes) /\ tuples' = tuples
       ELSE tuples' = ApplyRows(tuples, result.changes) /\ changelog' = changelog
    /\ pc' = "written"
    /\ UNCHANGED <<configVars, ctxDone, continuationToken, syncToken, locals, committed,
                   tick, prevTick, ticks, restarts, lastEv, mainVars, parseVars,
                   fetcherVars>>

\* syncChanges: WriteChanges / ApplyChanges returns an error, the transaction
\* is rolled back and syncChanges returns the error
PageWriteFails ==
    /\ pc = "fetched"
    /\ Len(result.changes) > 0
    /\ call' = [PageCall EXCEPT !.err = TRUE]
    /\ tick' = [tick EXCEPT !.err = "write"]
    /\ pc' = "failed"
    /\ UNCHANGED <<configVars, ctxDone, continuationToken, syncToken, locals, sinkVars,
                   prevTick, ticks, restarts, lastEv, mainVars, parseVars, fetcherVars>>

\* syncChanges after the sink write: SaveContinuationToken of a token that is
\* not empty returns nil and the in-memory token follows; an empty token is
\* not saved
PageTokenSaved ==
    /\ pc = "written"
    /\ IF AfterSinkWrite(FALSE, result) = "save"
       THEN /\ syncToken' = result.token
            /\ continuationToken' = TokenAfterSave(FALSE, continuationToken, result.token)
       ELSE UNCHANGED <<syncToken, continuationToken>>
    /\ pc' = "done"
    /\ UNCHANGED <<configVars, ctxDone, locals, sinkVars, tick, prevTick, ticks, restarts,
                   sinkCallVars, mainVars, parseVars, fetcherVars>>

\* syncChanges after the sink write: SaveContinuationToken returns an error;
\* the rows stay committed, neither token moves
PageTokenSaveFails ==
    /\ pc = "written"
    /\ AfterSinkWrite(FALSE, result) = "save"
    /\ continuationToken' = TokenAfterSave(TRUE, continuationToken, result.token)
    /\ tick' = [tick EXCEPT !.err = "save"]
    /\ pc' = "failed"
    /\ UNCHANGED <<configVars, ctxDone, syncToken, locals, sinkVars, prevTick, ticks,
                   restarts, sinkCallVars, mainVars, parseVars, fetcherVars>>

NextFetch ==
    \/ FetchPage
    \/ FetchPageFails
    \/ PageEmpty
    \/ PageWritten
    \/ PageWriteFails
    \/ PageTokenSaved
    \/ PageTokenSaveFails

SpecFetch == InitFetch /\ [][NextFetch]_vars

----
\* The cursor of the StorageAdapter interface called directly (SpecCursor).
\* syncToken is the stored token: the row of sync_state, or the OpenFGA
\* adapter's lastToken.  tick.savedWith is the argument of the last
\* SaveContinuationToken that returned nil on this sink, -1 when there was none.

\* The tokens a caller may save; 0 is the empty string
Tokens == 0..MaxStream

\* A faulty variant: an empty token is not stored
StoredTokenUnlessEmpty(cell, token) == IF token = 0 THEN cell ELSE token

\* UPDATE sync_state SET continuation_token = token / o.lastToken = token
StoredToken(cell, token) == token

\* A sink that was just created: initSchema has inserted the row '', the
\* OpenFGA adapter's lastToken has its zero value
InitCursor ==
    /\ backendType \in BackendTypes
    /\ mode \in StorageModes
    /\ batchSize = MaxBatchSize
    /\ maxChanges = 0
    /\ sinkMode = mode
    /\ stream = <<>>
    /\ pc = "idle"
    /\ ctxDone = FALSE
    /\ continuationToken = 0
    /\ syncToken = 0
    /\ result = NoResult
    /\ attempt = 0
    /\ sinkOffset = 0
    /\ sinkAttempt = 0
    /\ changelog = <<>>
    /\ tuples = {}
    /\ committed = <<>>
    /\ tick = NoTick
    /\ prevTick = NoPrevTick
    /\ ticks = 0
    /\ restarts = 0
    /\ call = NoCall
    /\ lastEv = [k \in Keys |-> NoEvent]
    /\ InitMainVars
    /\ InitParseVars
    /\ InitFetcherVars

restOfCursor == <<configVars, ctxDone, locals, sinkVars, prevTick, ticks, lastEv, mainVars,
                  parseVars, fetcherVars>>

CursorCall(op, token, err) ==
    [op |-> op, events |-> <<>>, err |-> err, rowsBefore |-> {}, logBefore |-> <<>>,
     token |-> token]

\* SaveContinuationToken(ctx, token) returns nil
SaveContinuationToken ==
    /\ pc = "idle"
    /\ \E token \in Tokens :
         /\ syncToken' = StoredToken(syncToken, token)
         /\ tick' = [tick EXCEPT !.savedWith = token]
         /\ call' = CursorCall("SaveContinuationToken", token, FALSE)
    /\ UNCHANGED <<restOfCursor, pc, continuationToken, restarts>>

\* SaveContinuationToken of a relational adapter returns the error of its UPDATE
SaveContinuationTokenFails ==
    /\ pc = "idle"
    /\ backendType \in Transactional
    /\ \E token \in Tokens : call' = CursorCall("SaveContinuationToken", token, TRUE)
    /\ UNCHANGED <<restOfCursor, pc, continuationToken, syncToken, tick, restarts>>

\* GetLastContinuationToken returns the stored token; continuationToken is the
\* caller's copy of what it returned
GetLastContinuationToken ==
    /\ pc = "idle"
    /\ continuationToken' = syncToken
    /\ call' = CursorCall("GetLastContinuationToken", 0, FALSE)
    /\ UNCHANGED <<restOfCursor, pc, syncToken, tick, restarts>>

\* GetLastContinuationToken of a relational adapter returns "" and the error of
\* its SELECT
GetLastContinuationTokenFails ==
    /\ pc = "idle"
    /\ backendType \in Transactional
    /\ continuationToken' = 0
    /\ call' = CursorCall("GetLastContinuationToken", 0, TRUE)
    /\ UNCHANGED <<restOfCursor, pc, syncToken, tick, restarts>>

\* The adapter is closed and a new one is constructed over the same storage; a
\* new OpenFGA adapter is a sink on which nothing was saved
Reopen ==
    /\ pc = "idle"
    /\ restarts < MaxRestarts
    /\ restarts' = restarts + 1
    /\ syncToken' = TokenAfterRestart(backendType, syncToken)
    /\ tick' = IF backendType = "openfga" THEN NoTick ELSE tick
    /\ call' = NoCall
    /\ UNCHANGED <<restOfCursor, pc, continuationToken>>

NextCursor ==
    \/ SaveContinuationToken
    \/ SaveContinuationTokenFails
    \/ GetLastContinuationToken
    \/ GetLastContinuationTokenFails
    \/ Reopen

SpecCursor == InitCursor /\ [][NextCursor]_vars

----
\* The OpenFGA adapter's conversion of an event to a tuple key (SpecCondition).
\* A condition string is "", a text that is not JSON, or the JSON text of a
\* value; a JSON value is given by its kind and its content.

JNull == [kind |-> "null"]
JNumber == [kind |-> "number"]
JArray == [kind |-> "array"]
JString(t) == [kind |-> "string", text |-> t]
JObject(fields) == [kind |-> "object", fields |-> fields]
Absent == [kind |-> "absent"]

\* The object with the members name and context; an Absent member is left out
ConditionObject(name, context) ==
    JObject([k \in {m \in {"name"} : name /= Absent}
                     \cup {m \in {"context"} : context /= Absent} |->
                 IF k = "name" THEN name ELSE context])

EmptyText == [text |-> "empty"]
MalformedText == [text |-> "malformed"]
JsonText(v) == [text |-> "json", value |-> v]

NameValues == {Absent, JNull, JNumber, JString(""), JString("ip_allowlist")}

ContextValues ==
    {Absent, JNull, JString("office"), JObject(<<>>),
     JObject([k \in {"key"} |-> JString("value")])}

ConditionTexts ==
    {EmptyText, MalformedText, JsonText(JNull), JsonText(JArray)}
      \cup {JsonText(ConditionObject(n, c)) : n \in NameValues, c \in ContextValues}

\* An event whose types are empty, as a caller of the adapter may pass it
KUntyped == [object_type |-> "", object_id |-> "readme", relation |-> "viewer",
             user_type |-> "", user_id |-> "alice"]

\* json.Unmarshal([]byte(conditionJSON), &conditionData) into a
\* map[string]interface{}: null leaves the map nil, an object fills it, any
\* other value and any text that is not JSON is an error
Unmarshal(text) ==
    IF text.text /= "json" THEN [err |-> TRUE, data |-> <<>>]
    ELSE IF text.value.kind = "null" THEN [err |-> FALSE, data |-> <<>>]
    ELSE IF text.value.kind = "object" THEN [err |-> FALSE, data |-> text.value.fields]
    ELSE [err |-> TRUE, data |-> <<>>]

NoCondition == [present |-> FALSE]
NoContext == [present |-> FALSE]

\* A faulty variant: the context is attached whenever it is an object
ContextOfAnyObject(data) ==
    IF "context" \in DOMAIN data /\ data["context"].kind = "object"
    THEN [present |-> TRUE, map |-> data["context"].fields]
    ELSE NoContext

\* parseCondition: the context is attached when it is there, is not null, is an
\* object and has a member
ContextOf(data) ==
    IF /\ "context" \in DOMAIN data
       /\ data["context"].kind /= "null"
       /\ data["context"].kind = "object"
       /\ DOMAIN data["context"].fields /= {}
    THEN [present |-> TRUE, map |-> data["context"].fields]
    ELSE NoContext

parseCondition(conditionJSON) ==
    IF conditionJSON = EmptyText THEN [err |-> FALSE, condition |-> NoCondition]
    ELSE LET u == Unmarshal(conditionJSON)
         IN  IF u.err THEN [err |-> TRUE, condition |-> NoCondition]
             ELSE IF ~("name" \in DOMAIN u.data /\ u.data["name"].kind = "string")
                     \/ u.data["name"].text = ""
             THEN [err |-> TRUE, condition |-> NoCondition]
             ELSE [err |-> FALSE,
                   condition |-> [present |-> TRUE, name |-> u.data["name"].text,
                                  context |-> ContextOf(u.data)]]

\* convertToTupleKey: the error of parseCondition is logged as a warning
convertToTupleKey(change) ==
    LET user == IF change.user_type /= ""
                THEN change.user_type \o ":" \o change.user_id ELSE change.user_id
        object == IF change.object_type /= ""
                  THEN change.object_type \o ":" \o change.object_id
                  ELSE change.object_id
        parsed == parseCondition(change.condition)
    IN  [user |-> user, relation |-> change.relation, object |-> object,
         condition |-> IF change.condition /= EmptyText /\ ~parsed.err
                       THEN parsed.condition ELSE NoCondition,
         warned |-> change.condition /= EmptyText /\ parsed.err]

InitCondition ==
    /\ backendType = "openfga"
    /\ mode \in StorageModes
    /\ batchSize = MaxBatchSize
    /\ maxChanges = 0
    /\ sinkMode = mode
    /\ stream = <<>>
    /\ pc = "idle"
    /\ ctxDone = FALSE
    /\ continuationToken = 0
    /\ syncToken = 0
    /\ result = NoResult
    /\ attempt = 0
    /\ sinkOffset = 0
    /\ sinkAttempt = 0
    /\ changelog = <<>>
    /\ tuples = {}
    /\ committed = <<>>
    /\ tick = NoTick
    /\ prevTick = NoPrevTick
    /\ ticks = 0
    /\ restarts = 0
    /\ call = NoCall
    /\ lastEv = [k \in Keys |-> NoEvent]
    /\ InitMainVars
    /\ response = [changes |-> <<>>, token |-> 0]
    /\ warnings = 0
    /\ input \in {ChangeEvent("WRITE", k, c, 1) : k \in {K1, KUntyped}, c \in ConditionTexts}
    /\ output = [fn |-> "none"]
    /\ InitFetcherVars

\* processBatch converts the event
CallConvertToTupleKey ==
    /\ output.fn = "none"
    /\ LET key == convertToTupleKey(input)
       IN  /\ output' = [fn |-> "convertToTupleKey", key |-> key]
           /\ warnings' = IF key.warned THEN warnings + 1 ELSE warnings
    /\ UNCHANGED <<configVars, pc, ctxDone, continuationToken, syncToken, locals, sinkVars,
                   tick, prevTick, ticks, restarts, sinkCallVars, mainVars, response, input,
                   fetcherVars>>

\* A caller parses the event's condition
CallParseCondition ==
    /\ output.fn = "none"
    /\ LET r == parseCondition(input.condition)
       IN  output' = [fn |-> "parseCondition", err |-> r.err, condition |-> r.condition]
    /\ UNCHANGED restOfParse

NextCondition ==
    \/ CallConvertToTupleKey
    \/ CallParseCondition

SpecCondition == InitCondition /\ [][NextCondition]_vars

----
\* The fetcher's public operations called directly on a source (SpecFetchAll):
\* one page, or the pagination loop of FetchAllChanges and
\* FetchAllChangesWithOptions.  While the loop runs, result holds its locals:
\* changes is allChanges and token is currentToken.  maxChanges is the limit
\* the caller passes.

PageOps == {"FetchChangesWithPaging", "FetchChangesWithRetry"}
AllOps == {"FetchAllChanges", "FetchAllChangesWithOptions"}

InitFetchAll ==
    /\ backendType = "sqlite"
    /\ mode = StorageModeChangelog
    /\ batchSize = MaxBatchSize
    /\ maxChanges \in 0..MaxLimit
    /\ sinkMode = mode
    /\ stream \in Streams
    /\ pc = "idle"
    /\ ctxDone = FALSE
    /\ continuationToken = 0
    /\ syncToken = 0
    /\ result = NoResult
    /\ attempt = 0
    /\ sinkOffset = 0
    /\ sinkAttempt = 0
    /\ changelog = <<>>
    /\ tuples = {}
    /\ committed = <<>>
    /\ tick = NoTick
    /\ prevTick = NoPrevTick
    /\ ticks = 0
    /\ restarts = 0
    /\ call = NoCall
    /\ lastEv = [k \in Keys |-> NoEvent]
    /\ InitMainVars
    /\ InitParseVars
    /\ InitFetcherVars

restOfFetchAll == <<configVars, ctxDone, continuationToken, syncToken, attempt, sinkOffset,
                    sinkAttempt, sinkVars, tick, prevTick, ticks, restarts, lastEv,
                    mainVars, parseVars, fetcherVars>>

\* call.pages counts the pages the running call has fetched and
\* call.emptyPages those of them that had no event
FetcherCall(op, token) ==
    [op |-> op, events |-> <<>>, err |-> FALSE, rowsBefore |-> {}, logBefore |-> <<>>,
     token |-> token, pages |-> 0, emptyPages |-> 0]

\* FetchChangesWithPaging or FetchChangesWithRetry returns the page after token
FetchOnePage ==
    /\ pc = "idle"
    /\ \E op \in PageOps, token \in 0..Len(stream) :
         /\ call' = FetcherCall(op, token)
         /\ \E next \in PageTokens(token) :
                result' = FetchResult(PageChanges(token), next)
    /\ pc' = "returned"
    /\ UNCHANGED restOfFetchAll

\* FetchChangesWithPaging's ReadChanges call fails, or FetchChangesWithRetry's
\* attempts are used up: the call returns nil and the error
FetchOnePageFails ==
    /\ pc = "idle"
    /\ \E op \in PageOps, token \in 0..Len(stream) :
         call' = [FetcherCall(op, token) EXCEPT !.err = TRUE]
    /\ result' = NoResult
    /\ pc' = "failed"
    /\ UNCHANGED restOfFetchAll

\* FetchAllChanges or FetchAllChangesWithOptions is called with startToken
FetchAllCalled ==
    /\ pc = "idle"
    /\ \E op \in AllOps, startToken \in 0..Len(stream) :
         /\ call' = FetcherCall(op, startToken)
         /\ result' = [changes |-> <<>>, token |-> startToken, hasMore |-> FALSE]
    /\ pc' = "loop"
    /\ UNCHANGED restOfFetchAll

LimitReached == maxChanges > 0 /\ Len(result.changes) >= maxChanges

\* The result after the loop: the collected changes, currentToken, HasMore false
FetchAllResult(allChanges, currentToken) ==
    [changes |-> allChanges, token |-> currentToken, hasMore |-> FALSE]

\* The loop's check of the limit: break
FetchAllLimit ==
    /\ pc = "loop"
    /\ LimitReached
    /\ result' = FetchAllResult(result.changes, result.token)
    /\ pc' = "returned"
    /\ UNCHANGED <<restOfFetchAll, call>>

\* One iteration: the next page is fetched and appended; the loop breaks when
\* the page has no next token and otherwise goes on from that token
FetchAllPage ==
    /\ pc = "loop"
    /\ ~LimitReached
    /\ call.pages < MaxFetches
    /\ \E next \in PageTokens(result.token) :
         LET page == FetchResult(PageChanges(result.token), next)
             allChanges == result.changes \o page.changes
         IN  /\ call' = [call EXCEPT !.pages = @ + 1,
                                     !.emptyPages = IF page.changes = <<>> THEN @ + 1
                                                    ELSE @]
             /\ IF ~page.hasMore \/ page.token = 0
                THEN /\ result' = FetchAllResult(allChanges, result.token)
                     /\ pc' = "returned"
                ELSE /\ result' = [changes |-> allChanges, token |-> page.token,
                                   hasMore |-> FALSE]
                     /\ pc' = "loop"
    /\ UNCHANGED restOfFetchAll

\* The context is cancelled or a page fetch fails: the call returns nil and
\* the error
FetchAllFails ==
    /\ pc = "loop"
    /\ result' = NoResult
    /\ call' = [call EXCEPT !.err = TRUE]
    /\ pc' = "failed"
    /\ UNCHANGED restOfFetchAll

\* The caller has seen the result
FetcherReturn ==
    /\ pc \in {"returned", "failed"}
    /\ pc' = "idle"
    /\ result' = NoResult
    /\ call' = NoCall
    /\ UNCHANGED restOfFetchAll

NextFetchAll ==
    \/ FetchOnePage
    \/ FetchOnePageFails
    \/ FetchAllCalled
    \/ FetchAllLimit
    \/ FetchAllPage
    \/ FetchAllFails
    \/ FetcherReturn

SpecFetchAll == InitFetchAll /\ [][NextFetchAll]_vars

----
\* FetchChangesWithRetry called directly on a fetcher (SpecRetry), together
\* with UpdateOptions and Close.  Durations are in nanoseconds, as
\* time.Duration is.  go.mod requires go 1.23, where the channel of a
\* stopped Ticker delivers nothing more, so a receive from it completes only
\* while the ticker runs.  While a call runs, attempt is retryWithBackoff's
\* attempt and retry holds the other locals, the copied RetryConfig among
\* them; retry.slept lists the sleeps that ran to their end, retry.parked
\* tells that the running select found no case ready and blocked,
\* retry.calls and retry.returned count the invocations.  fetcher.mutex is
\* empty or holds the argument of the UpdateOptions call that has locked it.

Durations == 0..MaxDuration
RateLimitDelays == {0, 1}

\* service.backoff_factor: 0.5, 1.0 and 2.0 as exact fractions
BackoffFactors == {[num |-> 1, den |-> 2], [num |-> 1, den |-> 1], [num |-> 2, den |-> 1]}

\* What Config.validate accepts of the retry settings
ValidRetryConfig(c) ==
    /\ c.maxRetries >= 0
    /\ c.initialDelay >= 0
    /\ c.maxDelay >= 0
    /\ c.backoffFactor.num > 0
    /\ c.rateLimitDelay >= 0

\* time.NewTicker
NewTicker == [running |-> TRUE]

\* Ticker.Stop on the rate limiter, when there is one
StopRateLimiter(ts, id) == IF id = 0 THEN ts ELSE [ts EXCEPT ![id].running = FALSE]

InitRetry ==
    /\ backendType = "sqlite"
    /\ mode = StorageModeChangelog
    /\ batchSize = MaxBatchSize
    /\ maxChanges = 0
    /\ sinkMode = mode
    /\ stream = <<>>
    /\ pc = "idle"
    /\ ctxDone = FALSE
    /\ continuationToken = 0
    /\ syncToken = 0
    /\ result = NoResult
    /\ attempt = 0
    /\ sinkOffset = 0
    /\ sinkAttempt = 0
    /\ changelog = <<>>
    /\ tuples = {}
    /\ committed = <<>>
    /\ tick = NoTick
    /\ prevTick = NoPrevTick
    /\ ticks = 0
    /\ restarts = 0
    /\ call = NoCall
    /\ lastEv = [k \in Keys |-> NoEvent]
    /\ InitMainVars
    /\ InitParseVars
    /\ \E options \in [maxRetries : 0..(MaxRetries + 1), initialDelay : Durations,
                       maxDelay : Durations, backoffFactor : BackoffFactors,
                       rateLimitDelay : RateLimitDelays, enableValidation : {TRUE}] :
         /\ ValidRetryConfig(options)
         /\ fetcher = [options |-> options,
                       rateLimiter |-> IF options.rateLimitDelay > 0 THEN 1 ELSE 0,
                       stats |-> NoStats, mutex |-> <<>>]
         /\ timers = IF options.rateLimitDelay > 0 THEN <<NewTicker>> ELSE <<>>
    /\ retry = NoRetry

restOfRetry == <<configVars, continuationToken, syncToken, result, sinkOffset, sinkAttempt,
                 sinkVars, tick, prevTick, ticks, restarts, sinkCallVars, mainVars,
                 parseVars>>

\* updateStats(success, ...)
updateStats(stats, success) ==
    [total |-> stats.total + 1,
     success |-> IF success THEN stats.success + 1 ELSE stats.success,
     failed |-> IF success THEN stats.failed ELSE stats.failed + 1]

\* options.RetryConfig
RetryConfigOf(options) ==
    [maxRetries |-> options.maxRetries, initialDelay |-> options.initialDelay,
     maxDelay |-> options.maxDelay, backoffFactor |-> options.backoffFactor]

\* config := f.options.RetryConfig is read without f.mutex: while UpdateOptions
\* holds the mutex and writes f.options, the copy can have every field from
\* the old or from the new options
ConfigsRead ==
    IF fetcher.mutex = <<>> THEN {RetryConfigOf(fetcher.options)}
    ELSE LET old == fetcher.options
             new == fetcher.mutex[1]
         IN  [maxRetries : {old.maxRetries, new.maxRetries},
              initialDelay : {old.initialDelay, new.initialDelay},
              maxDelay : {old.maxDelay, new.maxDelay},
              backoffFactor : {old.backoffFactor, new.backoffFactor}]

\* retryWithBackoff has returned err: FetchChangesWithRetry updates the
\* statistics under f.mutex and returns
StatsThenReturn(err) ==
    /\ fetcher.mutex = <<>>
    /\ fetcher' = [fetcher EXCEPT !.stats = updateStats(@, err = "none")]
    /\ retry' = [retry EXCEPT !.err = err, !.returned = @ + 1]
    /\ pc' = "returned"

\* retryWithBackoff starts: config := f.options.RetryConfig; delay := config.InitialDelay
StartRetryLoop(r) ==
    /\ \E config \in ConfigsRead :
         retry' = [r EXCEPT !.config = config, !.delay = config.initialDelay,
                            !.slept = <<>>, !.parked = FALSE, !.waitsOn = 0]
    /\ attempt' = 0
    /\ pc' = "attempt"

\* FetchChangesWithRetry is called: with a rate limiter it waits on the
\* limiter's channel, without one it goes on to retryWithBackoff
FetchCalled ==
    /\ pc = "idle"
    /\ retry.calls < MaxCalls
    /\ LET r == [NoRetry EXCEPT !.calls = retry.calls + 1, !.returned = retry.returned]
       IN  IF fetcher.rateLimiter /= 0
           THEN /\ retry' = [r EXCEPT !.waitsOn = fetcher.rateLimiter]
                /\ pc' = "pacer"
                /\ UNCHANGED attempt
           ELSE StartRetryLoop(r)
    /\ UNCHANGED <<restOfRetry, ctxDone, fetcher, timers>>

\* case <-f.rateLimiter.C
RateLimiterTicks ==
    /\ pc = "pacer"
    /\ timers[retry.waitsOn].running
    /\ StartRetryLoop(retry)
    /\ UNCHANGED <<restOfRetry, ctxDone, fetcher, timers>>

\* case <-ctx.Done(): return nil, ctx.Err()
RateLimiterCancelled ==
    /\ pc = "pacer"
    /\ ctxDone
    /\ retry' = [retry EXCEPT !.err = "cancelled", !.returned = @ + 1, !.waitsOn = 0]
    /\ pc' = "returned"
    /\ UNCHANGED <<restOfRetry, ctxDone, attempt, fetcher, timers>>

\* operation() returns nil
AttemptOk ==
    /\ pc = "attempt"
    /\ ~ctxDone
    /\ StatsThenReturn("none")
    /\ UNCHANGED <<restOfRetry, ctxDone, attempt, timers>>

\* operation() returns an error: the last attempt returns it, the others go
\* to the select of the next iteration, where time.After(delay) starts the
\* timer
AttemptFails ==
    /\ pc = "attempt"
    /\ IF attempt = retry.config.maxRetries
       THEN /\ StatsThenReturn("failed")
            /\ UNCHANGED attempt
       ELSE /\ attempt' = attempt + 1
            /\ pc' = "backoff"
            /\ UNCHANGED <<fetcher, retry>>
    /\ UNCHANGED <<restOfRetry, ctxDone, timers>>

\* delay = time.Duration(float64(delay) * config.BackoffFactor), capped
NextDelay(delay, config) ==
    LET next == (delay * config.backoffFactor.num) \div config.backoffFactor.den
    IN  IF next > config.maxDelay THEN config.maxDelay ELSE next

\* The select took case <-time.After(delay): the next delay is computed and
\* the attempt follows
SleepEnds ==
    /\ retry' = [retry EXCEPT !.slept = Append(@, retry.delay),
                              !.delay = NextDelay(@, retry.config),
                              !.parked = FALSE]
    /\ pc' = "attempt"

\* The select finds the timer's channel ready when it polls its cases: the
\* delay is 0 or has passed since time.After was called.  With the context
\* cancelled too, the select takes either ready case.
BackoffOver ==
    /\ pc = "backoff"
    /\ SleepEnds
    /\ UNCHANGED <<restOfRetry, ctxDone, attempt, fetcher, timers>>

\* The select finds ctx.Done() ready when it polls its cases: return ctx.Err()
BackoffInterrupted ==
    /\ pc = "backoff"
    /\ ctxDone
    /\ StatsThenReturn("cancelled")
    /\ UNCHANGED <<restOfRetry, ctxDone, attempt, timers>>

\* The select finds no case ready and blocks: the call sleeps
BackoffParks ==
    /\ pc = "backoff"
    /\ ~ctxDone
    /\ retry.delay > 0
    /\ retry' = [retry EXCEPT !.parked = TRUE]
    /\ pc' = "sleeping"
    /\ UNCHANGED <<restOfRetry, ctxDone, attempt, fetcher, timers>>

\* A faulty variant: the timer wakes the sleeping call after the cancellation
TimerWakesAlways(done) == TRUE

\* A blocked select is completed by the first channel that becomes ready: the
\* timer wakes the sleeping call only when the context has not been cancelled
\* before
TimerWakes(done) == ~done

\* The timer fires while the call sleeps
SleepOver ==
    /\ pc = "sleeping"
    /\ TimerWakes(ctxDone)
    /\ SleepEnds
    /\ UNCHANGED <<restOfRetry, ctxDone, attempt, fetcher, timers>>

\* The context was cancelled while the call slept: return ctx.Err()
SleepInterrupted ==
    /\ pc = "sleeping"
    /\ ctxDone
    /\ StatsThenReturn("cancelled")
    /\ UNCHANGED <<restOfRetry, ctxDone, attempt, timers>>

\* The caller has the result
FetchReturned ==
    /\ pc = "returned"
    /\ pc' = "idle"
    /\ attempt' = 0
    /\ retry' = [NoRetry EXCEPT !.calls = retry.calls, !.returned = retry.returned]
    /\ UNCHANGED <<restOfRetry, ctxDone, fetcher, timers>>

\* The FetchOptions UpdateOptions is called with: the options in force with
\* another RateLimitDelay, or options with another RetryConfig and without
\* validation
UpdatedOptions ==
    {[fetcher.options EXCEPT !.rateLimitDelay = d] : d \in RateLimitDelays}
        \cup {[maxRetries |-> MaxRetries, initialDelay |-> MaxDuration, maxDelay |-> 1,
               backoffFactor |-> [num |-> 2, den |-> 1], rateLimitDelay |-> d,
               enableValidation |-> FALSE] : d \in RateLimitDelays}

\* UpdateOptions(options) locks f.mutex and starts to assign f.options
UpdateOptionsCalled ==
    /\ fetcher.mutex = <<>>
    /\ \E options \in UpdatedOptions :
         /\ options.rateLimitDelay > 0 => Len(timers) < MaxTimers
         /\ fetcher' = [fetcher EXCEPT !.mutex = <<options>>]
    /\ UNCHANGED <<restOfRetry, pc, ctxDone, attempt, retry, timers>>

\* UpdateOptions: f.options = options is complete, the old limiter is stopped
\* and stays in place unless the new delay is positive; the mutex is released
UpdateOptions ==
    /\ fetcher.mutex /= <<>>
    /\ LET options == fetcher.mutex[1]
           stopped == StopRateLimiter(timers, fetcher.rateLimiter)
       IN  IF options.rateLimitDelay > 0
           THEN /\ timers' = Append(stopped, NewTicker)
                /\ fetcher' = [fetcher EXCEPT !.options = options,
                                              !.rateLimiter = Len(timers) + 1,
                                              !.mutex = <<>>]
           ELSE /\ timers' = stopped
                /\ fetcher' = [fetcher EXCEPT !.options = options, !.mutex = <<>>]
    /\ UNCHANGED <<restOfRetry, pc, ctxDone, attempt, retry>>

\* Close(): the limiter is stopped
Close ==
    /\ timers' = StopRateLimiter(timers, fetcher.rateLimiter)
    /\ UNCHANGED <<restOfRetry, pc, ctxDone, attempt, fetcher, retry>>

NextRetry ==
    \/ FetchCalled
    \/ RateLimiterTicks
    \/ RateLimiterCancelled
    \/ AttemptOk
    \/ AttemptFails
    \/ BackoffOver
    \/ BackoffInterrupted
    \/ BackoffParks
    \/ SleepOver
    \/ SleepInterrupted
    \/ FetchReturned
    \/ UpdateOptionsCalled
    \/ UpdateOptions
    \/ Close
    \/ Cancel

SpecRetry == InitRetry /\ [][NextRetry]_vars

----
\* Properties of the running service (Spec)

TickEnded == tick.outcome \in {"ok", "error"}

\* C1: in the relational sinks the events of a tick and the tick's cursor update
\* are one unit: once the tick is over (it returned, or the process died) its
\* events are not committed while the persisted token is still the pre-tick one.
C1_EventsAndCursorOneUnit ==
    (/\ backendType \in Transactional
     /\ tick.outcome \in {"error", "killed"}
     /\ tick.written
     /\ tick.next > 0)
        => syncToken = tick.next

\* C2 (as stated): after a successful tick the persisted token equals the
\* next_token of the tick's fetch; after a failed tick it is the token from
\* before the tick.
C2_PersistedTokenIsNextToken ==
    /\ tick.outcome = "ok" => syncToken = tick.next
    /\ tick.outcome = "error" => syncToken = tick.startSync

\* C2 (amended): after a successful tick that fetched at least one event and a
\* non-empty next_token the persisted token equals that next_token; after a
\* successful tick with no event or with an empty next_token, and after a failed
\* tick, the persisted token is the token from before the tick.
C2_CursorAfterTick ==
    /\ (tick.outcome = "ok" /\ tick.fetched > 0 /\ tick.next > 0)
           => syncToken = tick.next
    /\ (tick.outcome = "ok" /\ (tick.fetched = 0 \/ tick.next = 0))
           => syncToken = tick.startSync
    /\ tick.outcome = "error" => syncToken = tick.startSync

\* A successful tick whose page came with an empty next_token, after an earlier
\* tick had saved a token
C2_Witness ==
    /\ tick.outcome = "ok"
    /\ tick.fetched > 0
    /\ tick.next = 0
    /\ tick.startSync > 0
    /\ syncToken = tick.startSync

\* C3: the persisted token is never ahead of the committed events: every change
\* up to the persisted position has taken effect at the sink, and
\* SaveContinuationToken is reached only after the sink write of the page
\* returned success.
C3_TokenNotAheadOfEvents ==
    /\ \A i \in 1..syncToken : i \in Range(committed)
    /\ pc = "save" => (tick.written /\ result.token = tick.next /\ tick.next > 0)

\* A tick has saved the token of a page it wrote
C3_Witness ==
    /\ tick.outcome = "ok"
    /\ tick.written
    /\ syncToken > 0
    /\ syncToken = tick.next

\* C4: the events take effect at the sink in the order the source returned
\* them: the history of first effects is increasing in the source's order.
C4_SourceOrderPreserved ==
    \A i, j \in 1..Len(committed) : i < j => committed[i] < committed[j]

\* C5: a tick during which the shutdown signal arrived ends with the page fully
\* committed and its cursor saved, or with nothing of the page committed and
\* the cursor unchanged.
C5_CancelledTickAllOrNothing ==
    (TickEnded /\ tick.cancelled /\ tick.fetched > 0 /\ tick.next > 0)
        => \/ tick.written /\ syncToken = tick.next
           \/ ~tick.applied /\ ~tick.written /\ syncToken = tick.startSync

\* C11: SaveContinuationToken is called in a tick iff the fetch returned at
\* least one event, the sink write succeeded and next_token is not empty, and
\* then with next_token; a page with no event reaches neither the sink write
\* nor the save and moves no token; the empty token is never saved, a page with
\* events and an empty next_token is written and both tokens stay.
C11_SaveCalledIffEventsWrittenAndToken ==
    /\ TickEnded
           => ((tick.savedWith /= -1)
                   <=> (tick.fetched > 0 /\ tick.written /\ tick.next > 0))
    /\ tick.savedWith /= -1 => (tick.savedWith = tick.next /\ tick.savedWith /= 0)
    /\ (pc = "save") => (tick.savedWith = result.token /\ tick.outcome = "running")
    /\ (TickEnded /\ tick.next /= -1 /\ tick.fetched = 0)
           => /\ ~tick.written /\ ~tick.applied /\ tick.savedWith = -1
              /\ tick.outcome = "ok"
              /\ syncToken = tick.startSync
              /\ continuationToken = tick.fetchToken
    /\ (tick.outcome = "ok" /\ tick.fetched > 0 /\ tick.next = 0)
           => /\ tick.written /\ tick.savedWith = -1
              /\ syncToken = tick.startSync
              /\ continuationToken = tick.fetchToken

\* A page with events and an empty next_token has been written by a tick that
\* started from a saved token
C11_Witness ==
    /\ tick.outcome = "ok"
    /\ tick.fetched > 0
    /\ tick.next = 0
    /\ tick.written
    /\ tick.savedWith = -1
    /\ tick.fetchToken > 0
    /\ continuationToken = tick.fetchToken

\* C12: once the context is cancelled no tick begins.
C12_NoTickAfterCancel == [][ctxDone => ticks' = ticks]_vars

\* C13: a sink write or cursor save that is in flight when the context is
\* cancelled runs to completion: the call that was in flight returns success.
C13_InFlightWriteCompletes ==
    [][(ctxDone /\ pc \in {"write", "save"} /\ pc' = "select")
           => tick'.outcome = "ok"]_vars

\* C9: a fetch makes at most MaxRetries + 1 attempts; when all of them fail the
\* tick ends with an error, the sink and both tokens are as before the tick,
\* and the next tick fetches with the same token.
C9_RetryBounded ==
    /\ tick.attempts <= MaxRetries + 1
    /\ (tick.attempts = MaxRetries + 1 /\ tick.next = -1)
           => /\ tick.outcome = "error"
              /\ ~tick.applied /\ ~tick.written
              /\ syncToken = tick.startSync
              /\ continuationToken = tick.fetchToken
    /\ prevTick.exhausted => tick.fetchToken = prevTick.fetchToken

\* The tick after one whose attempts all failed is fetching
C9_Witness ==
    /\ prevTick.exhausted
    /\ prevTick.outcome = "error"
    /\ pc = "attempt"
    /\ tick.fetchToken = prevTick.fetchToken

\* C10: a failed tick leaves the loop running (it stops only on shutdown) and
\* the in-memory token as it was; the next tick fetches with the token of the
\* failed tick, also when it was the cursor save that failed.
C10_FailedTickKeepsToken ==
    /\ tick.outcome = "error"
           => /\ continuationToken = tick.fetchToken
              /\ pc \in {"select", "stopped"}
              /\ pc = "stopped" => ctxDone
    /\ prevTick.outcome = "error" => tick.fetchToken = prevTick.fetchToken

\* The tick after one whose cursor save failed is fetching
C10_Witness ==
    /\ prevTick.outcome = "error"
    /\ prevTick.written
    /\ backendType \in Transactional
    /\ pc = "attempt"
    /\ tick.fetchToken = prevTick.fetchToken

\* C24: the OpenFGA sink's cursor does not outlive the process: a restart
\* leaves the empty token whatever was saved before it, and the first tick
\* after a restart fetches the source from the beginning.
C24_RestartReplaysFromBeginning ==
    /\ [][(restarts' = restarts + 1 /\ backendType = "openfga")
              => (syncToken' = 0 /\ continuationToken' = 0)]_vars
    /\ [](backendType = "openfga"
              => /\ pc = "start" => syncToken = 0
                 /\ (tick.outcome = "running" /\ prevTick.outcome \in {"none", "killed"})
                        => tick.fetchToken = 0)

\* After a restart the first tick has fetched, from the empty token, a page
\* whose first change the target store had already received
C24_Witness ==
    /\ backendType = "openfga"
    /\ restarts = 1
    /\ pc = "write"
    /\ tick.outcome = "running"
    /\ prevTick.outcome \in {"none", "killed"}
    /\ tick.fetchToken = 0
    /\ ticks = 2
    /\ result.changes[1].timestamp \in Range(committed)

\* C29: with a rate limiter, every fetch attempt, the first and each retry, is
\* entered from its own wait on the pacer.
C29_EveryAttemptPaced ==
    [][(pc' = "attempt" /\ pc /= "attempt") => pc = "pacer"]_vars

\* C30: a fetch failure that is not transient ends the fetch after that one
\* attempt: no backoff sleep and no further attempt follow it.
C30_PermanentFailureNotRetried ==
    tick.err = "permanent" => (tick.attempts = 1 /\ pc /= "backoff")

\* C34: in the OpenFGA sink a chunk that fails is re-sent alone: the retry
\* after the failure of the chunk at sinkOffset resumes at that chunk, so the
\* chunks before it are not sent to the target again; and the failure of a
\* chunk's last attempt ends the tick with an error.
C34_FailedChunkRetriedAlone ==
    [][/\ (pc = "write" /\ pc' = "sinkBackoff") => sinkOffset' = sinkOffset
       /\ (pc = "write" /\ backendType = "openfga" /\ pc' = "select"
               /\ ~tick'.written)
              => tick'.outcome = "error"]_vars

\* C36: at every tick boundary of the running loop the in-memory continuation
\* token equals the token persisted in the sink; the in-memory token is
\* initialised from GetLastContinuationToken and afterwards assigned only
\* together with a successful SaveContinuationToken of the same value, and no
\* other step of the loop writes either copy (a restart of the process begins a
\* new loop).
C36_MemoryTokenEqualsPersisted ==
    /\ [](pc = "select" => continuationToken = syncToken)
    /\ [][(continuationToken' /= continuationToken \/ syncToken' /= syncToken)
              => \/ /\ pc = "start"
                    /\ pc' = "select"
                    /\ syncToken' = syncToken
                    /\ continuationToken' = syncToken
                 \/ /\ pc = "save"
                    /\ syncToken' = result.token
                    /\ continuationToken' = result.token
                 \/ pc' = "start"]_vars

\* A tick boundary after a tick that saved a token and a later tick whose save
\* failed
C36_Witness ==
    /\ pc = "select"
    /\ prevTick.outcome = "ok"
    /\ tick.outcome = "error"
    /\ tick.savedWith > 0
    /\ continuationToken > 0
    /\ continuationToken = syncToken

----
\* Properties of the process (SpecMain)

\* The handler has cancelled the context and started the watcher, and the
\* process has not ended
Draining == handler \in {"started", "returned"} /\ exitCode = -1

TornDown == {"sinkClosed", "fetcherClosed", "returned"}

\* C14: for the whole draining phase, from the first signal to the end of the
\* teardown, the watcher for the second signal is armed.
C14_WatcherArmedWhileDraining ==
    Draining => watcher = "select"

\* C15 (as stated): the process ends only through the teardown, with the sink
\* closed once and the source client released once.
C15_EndsOnlyThroughTeardown ==
    exitCode /= -1 => (closes.sink = 1 /\ closes.fetcher = 1)

\* C15 (amended): the sink and the source client are closed at most once, only
\* after runSyncLoop has returned and so with no tick running, the sink first;
\* a process that ends with code 0 has closed each exactly once; and after the
\* shutdown signal the process eventually ends, through the teardown with code 0
\* unless the watcher forces the exit with code 1.
C15_TeardownOnceAfterLoop ==
    /\ [](/\ closes.sink <= 1 /\ closes.fetcher <= 1
          /\ closes.sink = 1 <=> pc \in TornDown
          /\ closes.fetcher = 1 <=> pc \in {"fetcherClosed", "returned"}
          /\ closes.sink > 0 => inFlight = 0
          /\ exitCode = 0 => (pc = "returned" /\ closes.sink = 1 /\ closes.fetcher = 1))
    /\ ctxDone ~> (exitCode = 1 \/ (exitCode = 0 /\ closes.sink = 1 /\ closes.fetcher = 1))

\* The process has ended with code 0 after a shutdown signal that arrived
\* during a tick
C15_Witness ==
    /\ exitCode = 0
    /\ ctxDone
    /\ ticks > 0
    /\ closes = [sink |-> 1, fetcher |-> 1]
    /\ watcher = "returned"

\* C16: at most one call of syncChanges is in flight; the ticker firing during
\* a tick leaves the tick running, and the tick it announces starts after the
\* running one has returned (unless the process shuts down).
C16_TicksDoNotOverlap ==
    /\ [](/\ inFlight \in {0, 1}
          /\ pc = "tick" <=> inFlight = 1)
    /\ [][(pc = "tick" /\ ~tickerC /\ tickerC')
             => (pc' = "tick" /\ inFlight' = inFlight /\ ticks' = ticks)]_vars
    /\ \A n \in 1..(MaxTicks - 1) :
           (pc = "tick" /\ tickerC /\ ticks = n)
               ~> ((pc = "tick" /\ ticks = n + 1) \/ ctxDone \/ exitCode /= -1)

\* The second tick runs, announced while the first was running; the ticker has
\* fired again
C16_Witness ==
    /\ pc = "tick"
    /\ ticks = 2
    /\ tickerC
    /\ inFlight = 1
    /\ ~ctxDone

----
\* Properties of the StorageAdapter interface (SpecSink)

Returned(op) == pc = "returned" /\ call.op = op

\* C6 (as stated): for any event sequence, WriteChanges on a stateful sink and
\* ApplyChanges on a changelog sink return an error.
C6_WrongModeFails ==
    /\ (Returned("WriteChanges") /\ mode = StorageModeStateful) => call.err
    /\ (Returned("ApplyChanges") /\ mode = StorageModeChangelog) => call.err

\* C6 (amended): for any non-empty event sequence, WriteChanges on a stateful
\* sink and ApplyChanges on a changelog sink return an error and leave the sink
\* as it was; for the empty sequence both return nil in either mode.
C6_WrongModeFailsNonEmpty ==
    /\ (Returned("WriteChanges") /\ mode = StorageModeStateful)
           => call.err = (call.events /= <<>>)
    /\ (Returned("ApplyChanges") /\ mode = StorageModeChangelog)
           => call.err = (call.events /= <<>>)
    /\ (pc = "returned"
           /\ \/ call.op = "WriteChanges" /\ mode = StorageModeStateful
              \/ call.op = "ApplyChanges" /\ mode = StorageModeChangelog)
           => (tuples = call.rowsBefore /\ changelog = call.logBefore)

\* WriteChanges with events has returned its error on a stateful replication sink
C6_Witness ==
    /\ Returned("WriteChanges")
    /\ backendType = "openfga"
    /\ mode = StorageModeStateful
    /\ call.events /= <<>>
    /\ call.err

StateSinkApplied ==
    /\ Returned("ApplyChanges")
    /\ backendType \in Transactional
    /\ mode = StorageModeStateful
    /\ ~call.err

\* C7: on a relational stateful sink, applying the batch S a second time leaves
\* the rows ApplyChanges(S) left, and for every split of S into a prefix and a
\* remainder, applying the prefix and then the remainder leaves those rows too.
C7_ApplyIdempotentAndSplittable ==
    StateSinkApplied
        => /\ ApplyRows(tuples, call.events) = tuples
           /\ \A n \in 0..Len(call.events) :
                  ApplyRows(ApplyRows(call.rowsBefore, SubSeq(call.events, 1, n)),
                            SubSeq(call.events, n + 1, Len(call.events))) = tuples

\* A batch that deletes a tuple and then writes it again was applied to a table
\* that held other rows
C7_Witness ==
    /\ StateSinkApplied
    /\ Len(call.events) = 2
    /\ IsDeleteOp(call.events[1].operation)
    /\ IsWriteOp(call.events[2].operation)
    /\ KeyOf(call.events[1]) = KeyOf(call.events[2])
    /\ call.rowsBefore /= {}
    /\ tuples /= call.rowsBefore

\* C8: on a relational stateful sink the table has a row for key k iff the last
\* recognized event for k, over all successful ApplyChanges calls, is a write;
\* the row carries that write's condition (NULL if none); there is one row per
\* key; a batch of unrecognized operations leaves the table unchanged.
C8_TableIsFoldOfEvents ==
    (backendType \in Transactional /\ mode = StorageModeStateful)
        => /\ \A k \in Keys :
                  /\ (\E r \in tuples : r.key = k) <=> lastEv[k].kind = "write"
                  /\ \A r \in tuples :
                         r.key = k => r.condition = ConditionText(lastEv[k].condition)
           /\ \A r1, r2 \in tuples : r1.key = r2.key => r1 = r2
           /\ \A r \in tuples : r.key \in Keys
           /\ (StateSinkApplied /\ Recognized(call.events) = <<>>)
                  => tuples = call.rowsBefore

\* A batch with a delete of an absent key and a write carrying a condition over
\* an existing row has returned nil
C8_Witness ==
    /\ StateSinkApplied
    /\ \E i \in 1..Len(call.events) :
           /\ IsDeleteOp(call.events[i].operation)
           /\ ~\E r \in call.rowsBefore : r.key = KeyOf(call.events[i])
    /\ \E i \in 1..Len(call.events) :
           /\ IsWriteOp(call.events[i].operation)
           /\ call.events[i].condition /= ""
           /\ \E r \in call.rowsBefore :
                  r.key = KeyOf(call.events[i]) /\ r.condition = "NULL"
    /\ \E r \in tuples : r.condition /= "NULL"

\* C22: WriteChanges on a relational changelog sink appends atomically: after a
\* call that returned nil the log is the log before the call followed by one
\* row per event, in input order; after a call that returned an error, at
\* whichever event or at the commit, the log is as it was before the call.
C22_WriteChangesAtomic ==
    (Returned("WriteChanges") /\ backendType \in Transactional
         /\ mode = StorageModeChangelog)
        => IF call.err THEN changelog = call.logBefore
           ELSE /\ Len(changelog) = Len(call.logBefore) + Len(call.events)
                /\ SubSeq(changelog, 1, Len(call.logBefore)) = call.logBefore
                /\ \A i \in 1..Len(call.events) :
                       LET row == changelog[Len(call.logBefore) + i]
                           ev == call.events[i]
                       IN  /\ row.change_type = ev.operation
                           /\ row.key = KeyOf(ev)
                           /\ row.condition = ConditionText(ev.condition)

\* Two different events were appended to a log that already had a row
C22_Witness ==
    /\ Returned("WriteChanges")
    /\ backendType \in Transactional
    /\ mode = StorageModeChangelog
    /\ ~call.err
    /\ Len(call.logBefore) >= 1
    /\ Len(call.events) = 2
    /\ call.events[1] /= call.events[2]
    /\ Len(changelog) = 3

ChangeKinds == {"tuple_write", "tuple_delete", "tuple_change"}

\* C35: every row WriteChanges appends to the changelog carries the change kind
\* determineChangeType(operation) of its event, one of tuple_write,
\* tuple_delete and tuple_change.
C35_RowsCarryChangeKind ==
    (Returned("WriteChanges") /\ backendType \in Transactional
         /\ mode = StorageModeChangelog /\ ~call.err)
        => \A i \in 1..Len(call.events) :
               LET row == changelog[Len(call.logBefore) + i]
               IN  /\ row.change_type \in ChangeKinds
                   /\ row.change_type = determineChangeType(call.events[i].operation)

----
\* Properties of the parser and of the written rows (SpecFetch)

WithTupleKey == SelectSeq(response.changes, LAMBDA r : r.tuple_key.present)

\* C17: the records that lack tuple_key are not delivered to the sink, every
\* other record of the page is, in order, and the page's next_token is saved.
C17_RecordsWithoutTupleKeySkipped ==
    pc = "done"
        => /\ Len(result.changes) = Len(WithTupleKey)
           /\ \A i \in 1..Len(WithTupleKey) :
                  i <= Len(result.changes)
                      => result.changes[i].raw_json = MarshalWire(WithTupleKey[i])
           /\ (WithTupleKey /= <<>> /\ response.token /= 0)
                  => syncToken = response.token

\* C18: every event passed to WriteChanges or ApplyChanges has a non-empty
\* object type, object id, relation, user type and user id.
C18_IdentityFieldsNonEmpty ==
    \A i \in 1..Len(call.events) :
        LET ev == call.events[i]
        IN  /\ ev.object_type /= <<>>
            /\ ev.object_id /= <<>>
            /\ ev.relation /= ""
            /\ ev.user_type /= <<>>
            /\ ev.user_id /= <<>>

\* A NULL condition reads back as no condition
ReadCondition(text) == IF text = "NULL" THEN "" ELSE text

\* C19: the row WriteChanges wrote for an event gives back the event's object,
\* relation, user, timestamp and condition, and its raw_event is the event's
\* RawJSON.
C19_ChangelogRoundTrip ==
    (pc = "done" /\ call.op = "WriteChanges")
        => \A i \in 1..Len(call.events) :
               LET ev == call.events[i]
                   row == changelog[Len(call.logBefore) + i]
               IN  /\ row.key = KeyOf(ev)
                   /\ row.timestamp = ev.timestamp
                   /\ ReadCondition(row.condition) = ev.condition
                   /\ row.raw_event = ev.raw_json

\* C26: with max_changes = N > 0 a tick hands at most N events to the sink.
C26_TickWithinMaxChanges ==
    (pc = "done" /\ maxChanges > 0) => Len(call.events) <= maxChanges

----
\* Properties of the cursor (SpecCursor)

\* C23: in every sink GetLastContinuationToken returns the empty token when
\* nothing was saved on the sink and otherwise the argument of the last
\* SaveContinuationToken that returned nil, the empty token included.
C23_CursorIsRegister ==
    (call.op = "GetLastContinuationToken" /\ ~call.err)
        => continuationToken = (IF tick.savedWith = -1 THEN 0 ELSE tick.savedWith)

\* The empty token was the last token saved on a relational sink, the sink was
\* reopened and then read
C23_Witness ==
    /\ call.op = "GetLastContinuationToken"
    /\ ~call.err
    /\ tick.savedWith = 0
    /\ continuationToken = 0
    /\ backendType \in Transactional
    /\ restarts = 1

----
\* Properties of the tuple key conversion (SpecCondition)

\* The condition string is JSON of an object whose name is a non-empty string
HasConditionName(text) ==
    /\ text.text = "json"
    /\ text.value.kind = "object"
    /\ "name" \in DOMAIN text.value.fields
    /\ text.value.fields["name"].kind = "string"
    /\ text.value.fields["name"].text /= ""

\* The condition string's context is an object with at least one member
HasContext(text) ==
    /\ "context" \in DOMAIN text.value.fields
    /\ text.value.fields["context"].kind = "object"
    /\ text.value.fields["context"].fields /= <<>>

\* C25: convertToTupleKey returns the event's user, relation and object
\* whatever the condition string is; the key has no condition when the string is
\* empty, is not JSON or has no non-empty string name, and otherwise it has the
\* condition of that name, with a context iff the context is a non-empty object.
C25_BadConditionNeverFailsEvent ==
    output.fn = "convertToTupleKey"
        => LET key == output.key
               plain == convertToTupleKey([input EXCEPT !.condition = EmptyText])
           IN  /\ key.user = plain.user
               /\ key.relation = input.relation
               /\ key.object = plain.object
               /\ IF HasConditionName(input.condition)
                  THEN /\ key.condition.present
                       /\ key.condition.name = input.condition.value.fields["name"].text
                       /\ key.condition.context.present <=> HasContext(input.condition)
                  ELSE ~key.condition.present

\* The key of an event whose condition has a context but no name
C25_Witness ==
    /\ output.fn = "convertToTupleKey"
    /\ input.condition = JsonText(ConditionObject(Absent,
                                      JObject([k \in {"key"} |-> JString("value")])))
    /\ output.key.user = "user:alice"
    /\ output.key.object = "document:readme"
    /\ ~output.key.condition.present
    /\ warnings = 1

----
\* Properties of the fetcher's results (SpecFetchAll)

\* C28: every FetchResult returned by FetchChangesWithPaging,
\* FetchChangesWithRetry, FetchAllChanges and FetchAllChangesWithOptions has
\* HasMore true iff its ContinuationToken is not empty.
C28_HasMoreIffToken ==
    pc = "returned" => (result.hasMore <=> result.token /= 0)

\* C38: the token FetchAllChanges and FetchAllChangesWithOptions return
\* addresses the position after the last event of the returned Changes: the
\* page a later fetch gets from that token has none of the returned events,
\* however the pagination ended.
C38_TokenAfterReturnedChanges ==
    (pc = "returned" /\ call.op \in AllOps)
        => Range(PageChanges(result.token)) \cap Range(result.changes) = {}

\* C39: with max_changes = 0 FetchAllChanges stops once the source is
\* exhausted: after a page with zero events, with or without a continuation
\* token, the loop does not go on to fetch another page.
C39_StopsWhenSourceExhausted ==
    (pc = "loop" /\ maxChanges = 0) => call.emptyPages = 0

----
\* Properties of FetchChangesWithRetry (SpecRetry)

\* initial_delay * backoff_factor^(k-1), capped at max_delay
ClosedFormDelay(config, k) ==
    Min((config.initialDelay * config.backoffFactor.num ^ (k - 1))
            \div (config.backoffFactor.den ^ (k - 1)),
        config.maxDelay)

\* C31: the sleep before the k-th retry is initial_delay * backoff_factor^(k-1)
\* capped at max_delay, and no sleep is longer than max_delay, for every retry
\* configuration the validation accepts.
C31_BackoffGrowthAndCap ==
    \A k \in 1..Len(retry.slept) :
        /\ retry.slept[k] = ClosedFormDelay(retry.config, k)
        /\ retry.slept[k] <= retry.config.maxDelay

\* C32: when the context is cancelled while retryWithBackoff sleeps between
\* two attempts, the next step of the call is its return with the
\* cancellation error: no further attempt is issued.
C32_CancelledSleepReturns ==
    [][(pc = "sleeping" /\ ctxDone)
           => \/ pc' = "sleeping"
              \/ /\ pc' = "returned"
                 /\ retry'.err = "cancelled"
                 /\ attempt' = attempt]_vars

\* A call returned the cancellation error out of the sleep before a retry
C32_Witness ==
    /\ pc = "returned"
    /\ retry.err = "cancelled"
    /\ attempt >= 1
    /\ retry.parked
    /\ retry.delay > 0
    /\ ctxDone

\* C33: every FetchChangesWithRetry invocation that has returned (succeeded,
\* exhausted its retries or was cancelled) added one to total_requests and one
\* to exactly one of success_requests and failed_requests.
C33_StatsOncePerInvocation ==
    /\ fetcher.stats.total = retry.returned
    /\ fetcher.stats.total = fetcher.stats.success + fetcher.stats.failed

\* C37: a FetchChangesWithRetry call never blocks forever at the pacer, in any
\* interleaving with UpdateOptions or Close.  A stopped ticker delivers nothing
\* more and only the context's cancellation ends the wait then, so the call
\* blocks forever exactly when the ticker it waits on is stopped: whenever a
\* call waits at the pacer, the ticker it waits on is running.
C37_PacerNeverBlocksForever ==
    pc = "pacer" => timers[retry.waitsOn].running

----
\* Properties of the identity parsers (SpecParse)

\* C20: for every string both parsers return, and the type they return is not
\* empty.
C20_ParsedTypeNonEmpty ==
    output.fn /= "none" => output.type /= <<>>

\* The reference of the identity parsers: the four rules, tried in order
parseQualified(s, defaultType) ==
    LET parts == SplitN2(s, ":")
        split == IF Len(parts) = 2 /\ parts[1] /= <<>>
                 THEN [type |-> parts[1], id |-> parts[2]]
                 ELSE [type |-> defaultType, id |-> s]
    IN  IF s = <<>> THEN [type |-> defaultType, id |-> <<>>]
        ELSE IF Contains(s, "#") THEN split
        ELSE IF Contains(s, ":") THEN split
        ELSE [type |-> defaultType, id |-> s]

\* C21: for every string, parseUserTypeAndID gives what parseQualified gives
\* with the default type "user" and parseObjectTypeAndID what it gives with the
\* default type "object".
C21_ParsersEqualReference ==
    /\ output.fn = "parseUserTypeAndID"
           => [type |-> output.type, id |-> output.id]
                  = parseQualified(input, DefaultUserType)
    /\ output.fn = "parseObjectTypeAndID"
           => [type |-> output.type, id |-> output.id]
                  = parseQualified(input, DefaultObjectType)

\* The string has a type prefix: a ":" with text before the first one
HasTypePrefix(s) == Contains(s, ":") /\ SplitN2(s, ":")[1] /= <<>>

\* C40: for every subject and object string of the source, the string
\* convertToTupleKey builds from the parsed event is the source's string.
C40_SplitJoinRoundTrip ==
    output.fn = "convertToTupleKey" => output.joined = input

\* C40, amended: the string convertToTupleKey builds is the source's string
\* whenever the source's string has a type prefix.
C40_SplitJoinRoundTripOfQualified ==
    (output.fn = "convertToTupleKey" /\ HasTypePrefix(input)) => output.joined = input

\* A userset with a type prefix went through the parser and the conversion
C40_Witness ==
    /\ output.fn = "convertToTupleKey"
    /\ HasTypePrefix(input)
    /\ Contains(input, "#")
    /\ output.id /= <<>>
    /\ output.joined = input

====
